---- MODULE Spec2Model ----
(***************************************************************************)
(* The UoPool mempool backends of silius (in-memory and durable), the      *)
(* reputation table and the sanity checks of the validation pipeline.      *)
(*                                                                         *)
(* Addresses are 1..MaxAddr; 0 in init_code / paymaster_and_data stands    *)
(* for the empty byte string (no factory / no paymaster).                  *)
(***************************************************************************)
EXTENDS Integers, Naturals, Sequences, FiniteSets, TLC

\* ------------------------------------------------------------------ bounds
MaxAddr == 2
MaxNonce == 1
MaxTip == 2
MaxPool == 2
MaxCode == 1
MaxLen == 2
MaxTasks == 2
MaxGas == 1

\* the configuration user_operation_sanity_check gives UoPoolService::new
max_verification_gas == 1500000
min_priority_fee_per_gas == 2

VARIABLES
    mem,    \* MemoryMempool: the four HashMaps
    db,     \* the mdbx environment: the four tables DatabaseMempool uses
    last,   \* the call made last and what each backend returned
    tasks,  \* the validations in flight: where each stands and its verdict
    rep,    \* the EntitiesReputation table of the mdbx environment
    results, \* UoPoolService::sanity_check_results
    overflow_checks \* the build's overflow-checks setting (on in debug
            \* profiles, off in release profiles)

vars == <<mem, db, last, tasks, rep, results, overflow_checks>>

\* ------------------------------------------------------- user operations
Addresses == 1..MaxAddr

\* A byte string that is not empty but shorter than the 20 bytes of an
\* address, as init_code or paymaster_and_data.
Short == MaxAddr + 1

\* Overhead::calculate_pre_verification_gas: a fixed overhead plus a cost
\* that grows with the length of the packed operation, that is, here, with
\* each of the two byte strings that is not empty.
calculate_pre_verification_gas(uo) ==
    1 + (IF uo.init_code = 0 THEN 0 ELSE 1)
      + (IF uo.paymaster_and_data = 0 THEN 0 ELSE 1)

\* The user operations a client submits: sender, nonce, init_code (its
\* factory address, 0 when empty), paymaster_and_data (its paymaster address,
\* 0 when empty), the two fee fields and the signature.  The three gas
\* limits are set so that the gas checks accept the operation.
Ops(senders, nonces, factories, paymasters, tips, fees, sigs) ==
    [sender : senders, nonce : nonces, init_code : factories,
     paymaster_and_data : paymasters, max_priority_fee_per_gas : tips,
     max_fee_per_gas : fees, signature : sigs,
     call_gas_limit : {MaxGas},
     verification_gas_limit : {max_verification_gas},
     pre_verification_gas : {1 + 2}]

\* UserOperation::hash(ep, chain_id): keccak over the operation packed
\* without its signature, the entry point and the chain id (both fixed here,
\* one pool per entry point and chain).  Injective on everything but the
\* signature.
Hash(uo) ==
    <<uo.sender, uo.nonce, uo.init_code, uo.paymaster_and_data,
      uo.max_priority_fee_per_gas, uo.max_fee_per_gas,
      uo.call_gas_limit, uo.verification_gas_limit, uo.pre_verification_gas>>

\* UserOperation::get_entities: (sender, Option factory, Option paymaster);
\* None is 0.
get_entities(uo) ==
    [sender |-> uo.sender, factory |-> uo.init_code,
     paymaster |-> uo.paymaster_and_data]

\* ------------------------------------------------------ HashMap helpers
\* map.entry(k).or_default().insert(h)
EntryInsert(map, k, h) ==
    [x \in (DOMAIN map) \cup {k} |->
        IF x = k
        THEN (IF k \in DOMAIN map THEN map[k] ELSE {}) \cup {h}
        ELSE map[x]]

\* map.insert(k, v)
MapInsert(map, k, v) ==
    [x \in (DOMAIN map) \cup {k} |-> IF x = k THEN v ELSE map[x]]

\* map.remove(k)
MapRemove(map, k) == [x \in (DOMAIN map) \ {k} |-> map[x]]

\* the key's whole set removed instead of the one hash
EntryRemoveWholeKey(map, k, h) ==
    IF k \in DOMAIN map THEN MapRemove(map, k) ELSE map

\* if let Some(uos) = map.get_mut(k) { uos.remove(h); if uos.is_empty() { map.remove(k) } }
EntryRemove(map, k, h) ==
    IF k \in DOMAIN map
    THEN IF map[k] \ {h} = {}
         THEN MapRemove(map, k)
         ELSE [map EXCEPT ![k] = @ \ {h}]
    ELSE map

EmptyMap == [x \in {} |-> {}]

\* ------------------------------------------------------- MemoryMempool
MemoryMempoolDefault ==
    [user_operations |-> EmptyMap,
     user_operations_by_sender |-> EmptyMap,
     code_hashes_by_user_operation |-> EmptyMap,
     user_operations_by_entity |-> EmptyMap]

MemAdd(m, uo) ==
    LET uo_hash == Hash(uo)
        e == get_entities(uo)
        bs == EntryInsert(m.user_operations_by_sender, e.sender, uo_hash)
        be1 == IF e.factory # 0
               THEN EntryInsert(m.user_operations_by_entity, e.factory, uo_hash)
               ELSE m.user_operations_by_entity
        be2 == IF e.paymaster # 0
               THEN EntryInsert(be1, e.paymaster, uo_hash)
               ELSE be1
    IN [st |-> [m EXCEPT !.user_operations_by_sender = bs,
                         !.user_operations_by_entity = be2,
                         !.user_operations = MapInsert(@, uo_hash, uo)],
        res |-> uo_hash]

MemGet(m, uo_hash) ==
    IF uo_hash \in DOMAIN m.user_operations
    THEN {m.user_operations[uo_hash]}
    ELSE {}

\* The operations get_all_by_sender returns (it returns them as a Vec in the
\* iteration order of the HashSet, which is unspecified).
MemGetAllBySender(m, addr) ==
    IF addr \in DOMAIN m.user_operations_by_sender
    THEN {m.user_operations[h] :
            h \in m.user_operations_by_sender[addr] \cap DOMAIN m.user_operations}
    ELSE {}

MemGetNumberBySender(m, addr) ==
    IF addr \in DOMAIN m.user_operations_by_sender
    THEN Cardinality(m.user_operations_by_sender[addr])
    ELSE 0

MemGetNumberByEntity(m, addr) ==
    IF addr \in DOMAIN m.user_operations_by_entity
    THEN Cardinality(m.user_operations_by_entity[addr])
    ELSE 0

MemHasCodeHashes(m, uo_hash) ==
    uo_hash \in DOMAIN m.code_hashes_by_user_operation

MemSetCodeHashes(m, uo_hash, hashes) ==
    [st |-> [m EXCEPT !.code_hashes_by_user_operation =
                            MapInsert(@, uo_hash, hashes)],
     res |-> "Ok"]

MemGetCodeHashes(m, uo_hash) ==
    IF uo_hash \in DOMAIN m.code_hashes_by_user_operation
    THEN m.code_hashes_by_user_operation[uo_hash]
    ELSE <<>>

\* remove that answers Ok for a hash the pool does not hold
MemRemoveReportsOk(m, uo_hash) ==
    IF uo_hash \notin DOMAIN m.user_operations
    THEN [st |-> m, res |-> "Ok"]
    ELSE
      LET e == get_entities(m.user_operations[uo_hash])
          bs == EntryRemove(m.user_operations_by_sender, e.sender, uo_hash)
          be1 == IF e.factory # 0
                 THEN EntryRemove(m.user_operations_by_entity, e.factory, uo_hash)
                 ELSE m.user_operations_by_entity
          be2 == IF e.paymaster # 0
                 THEN EntryRemove(be1, e.paymaster, uo_hash)
                 ELSE be1
      IN [st |-> [user_operations |-> MapRemove(m.user_operations, uo_hash),
                  user_operations_by_sender |-> bs,
                  user_operations_by_entity |-> be2,
                  code_hashes_by_user_operation |->
                      MapRemove(m.code_hashes_by_user_operation, uo_hash)],
          res |-> "Ok"]

\* remove that forgets the paymaster's entry of the by-entity index
MemRemoveKeepsPaymaster(m, uo_hash) ==
    IF uo_hash \notin DOMAIN m.user_operations
    THEN [st |-> m, res |-> "NotFound"]
    ELSE
      LET e == get_entities(m.user_operations[uo_hash])
          bs == EntryRemove(m.user_operations_by_sender, e.sender, uo_hash)
          be1 == IF e.factory # 0
                 THEN EntryRemove(m.user_operations_by_entity, e.factory, uo_hash)
                 ELSE m.user_operations_by_entity
      IN [st |-> [user_operations |-> MapRemove(m.user_operations, uo_hash),
                  user_operations_by_sender |-> bs,
                  user_operations_by_entity |-> be1,
                  code_hashes_by_user_operation |->
                      MapRemove(m.code_hashes_by_user_operation, uo_hash)],
          res |-> "Ok"]

MemRemove(m, uo_hash) ==
    IF uo_hash \notin DOMAIN m.user_operations
    THEN [st |-> m, res |-> "NotFound"]
    ELSE
      LET e == get_entities(m.user_operations[uo_hash])
          bs == EntryRemove(m.user_operations_by_sender, e.sender, uo_hash)
          be1 == IF e.factory # 0
                 THEN EntryRemove(m.user_operations_by_entity, e.factory, uo_hash)
                 ELSE m.user_operations_by_entity
          be2 == IF e.paymaster # 0
                 THEN EntryRemove(be1, e.paymaster, uo_hash)
                 ELSE be1
      IN [st |-> [user_operations |-> MapRemove(m.user_operations, uo_hash),
                  user_operations_by_sender |-> bs,
                  user_operations_by_entity |-> be2,
                  code_hashes_by_user_operation |->
                      MapRemove(m.code_hashes_by_user_operation, uo_hash)],
          res |-> "Ok"]

\* for uo_hash in uos { self.remove(&uo_hash)?; } over the cloned set: the
\* first failing remove ends the loop and keeps what was removed before it.
RECURSIVE MemRemoveAll(_, _)
MemRemoveAll(m, uos) ==
    IF uos = {}
    THEN [st |-> m, res |-> "Ok"]
    ELSE LET uo_hash == CHOOSE h \in uos : TRUE
             r == MemRemove(m, uo_hash)
         IN IF r.res # "Ok" THEN r ELSE MemRemoveAll(r.st, uos \ {uo_hash})

MemRemoveByEntity(m, entity) ==
    IF entity \in DOMAIN m.user_operations_by_entity
    THEN MemRemoveAll(m, m.user_operations_by_entity[entity])
    ELSE [st |-> m, res |-> "Ok"]

MemGetAll(m) == {m.user_operations[h] : h \in DOMAIN m.user_operations}

MemClear(m) == MemoryMempoolDefault

\* get_sorted's comparator: higher max_priority_fee_per_gas first, then lower
\* nonce first.  -1 is Ordering::Less, 0 Equal, 1 Greater.
Cmp(x, y) == IF x < y THEN -1 ELSE IF x = y THEN 0 ELSE 1

\* the comparator with the tips compared the wrong way round
SortCompareAscending(a, b) ==
    IF a.max_priority_fee_per_gas # b.max_priority_fee_per_gas
    THEN Cmp(a.max_priority_fee_per_gas, b.max_priority_fee_per_gas)
    ELSE Cmp(a.nonce, b.nonce)

SortCompare(a, b) ==
    IF a.max_priority_fee_per_gas # b.max_priority_fee_per_gas
    THEN Cmp(b.max_priority_fee_per_gas, a.max_priority_fee_per_gas)
    ELSE Cmp(a.nonce, b.nonce)

\* an insertion that keeps one of the elements that compare Equal
InsertSortedDropsEqual(s, x) ==
    IF \E i \in 1..Len(s) : SortCompare(s[i], x) = 0 THEN s
    ELSE LET later == {i \in 1..Len(s) : SortCompare(s[i], x) = 1}
             k == IF later = {} THEN Len(s) + 1
                  ELSE CHOOSE i \in later : \A j \in later : i <= j
         IN SubSeq(s, 1, k - 1) \o <<x>> \o SubSeq(s, k, Len(s))

\* Vec::sort_by: a stable sort; x goes behind every element that does not
\* compare Greater than it.
InsertSorted(s, x) ==
    LET later == {i \in 1..Len(s) : SortCompare(s[i], x) = 1}
        k == IF later = {} THEN Len(s) + 1
             ELSE CHOOSE i \in later : \A j \in later : i <= j
    IN SubSeq(s, 1, k - 1) \o <<x>> \o SubSeq(s, k, Len(s))

RECURSIVE SortBy(_)
SortBy(s) ==
    IF s = <<>> THEN <<>>
    ELSE InsertSorted(SortBy(SubSeq(s, 1, Len(s) - 1)), s[Len(s)])

\* The orders in which a collection may hand out its values (HashMap
\* iteration order; the key order of keccak hashes in a table).
Orders(S) ==
    {s \in [1..Cardinality(S) -> S] : \A i, j \in DOMAIN s : s[i] = s[j] => i = j}

\* get_sorted on the values iterated in order `values`
MemGetSorted(m, values) == SortBy(values)

\* ------------------------------------------------------ DatabaseMempool
\* UserOperations is a unique-key table (hash -> operation); the other three
\* are duplicate-key tables, i.e. sets of (key, value) pairs kept sorted.
DatabaseMempoolNew ==
    [UserOperations |-> EmptyMap,
     UserOperationsBySender |-> {},
     UserOperationsByEntity |-> {},
     CodeHashes |-> {}]

\* cursor.seek_by_key_subkey(key, Address::default()) followed by next_dup
\* until None: every value stored under key.
Dups(table, key) == {p[2] : p \in {q \in table : q[1] = key}}

\* tx.delete::<T>(key, None): every duplicate of key
DeleteKey(table, key) == {p \in table : p[1] # key}

\* add that does not overwrite the operation stored under the hash
DbAddKeepsFirst(d, uo) ==
    LET hash == Hash(uo)
        e == get_entities(uo)
        be1 == IF e.factory # 0
               THEN d.UserOperationsByEntity \cup {<<e.factory, hash>>}
               ELSE d.UserOperationsByEntity
        be2 == IF e.paymaster # 0
               THEN be1 \cup {<<e.paymaster, hash>>}
               ELSE be1
    IN [st |-> [d EXCEPT !.UserOperations =
                            IF hash \in DOMAIN @ THEN @ ELSE MapInsert(@, hash, uo),
                         !.UserOperationsBySender = @ \cup {<<e.sender, hash>>},
                         !.UserOperationsByEntity = be2],
        res |-> hash]

DbAdd(d, uo) ==
    LET hash == Hash(uo)
        e == get_entities(uo)
        be1 == IF e.factory # 0
               THEN d.UserOperationsByEntity \cup {<<e.factory, hash>>}
               ELSE d.UserOperationsByEntity
        be2 == IF e.paymaster # 0
               THEN be1 \cup {<<e.paymaster, hash>>}
               ELSE be1
    IN [st |-> [d EXCEPT !.UserOperations = MapInsert(@, hash, uo),
                         !.UserOperationsBySender = @ \cup {<<e.sender, hash>>},
                         !.UserOperationsByEntity = be2],
        res |-> hash]

DbGet(d, uo_hash) ==
    IF uo_hash \in DOMAIN d.UserOperations
    THEN {d.UserOperations[uo_hash]}
    ELSE {}

DbGetAllBySender(d, sender) ==
    {d.UserOperations[h] :
        h \in Dups(d.UserOperationsBySender, sender) \cap DOMAIN d.UserOperations}

DbGetNumberBySender(d, addr) == Cardinality(Dups(d.UserOperationsBySender, addr))

\* a count of the roles the address plays: an operation that names it as
\* factory and as paymaster counts twice
DbGetNumberByEntityCountsRoles(d, addr) ==
    Cardinality({h \in DOMAIN d.UserOperations :
                    d.UserOperations[h].init_code = addr})
    + Cardinality({h \in DOMAIN d.UserOperations :
                    d.UserOperations[h].paymaster_and_data = addr})

DbGetNumberByEntity(d, addr) == Cardinality(Dups(d.UserOperationsByEntity, addr))

DbHasCodeHashes(d, uo_hash) == \E p \in d.CodeHashes : p[1] = uo_hash

\* the duplicates of a key come back in the table's sort order
RECURSIVE Ascending(_)
Ascending(S) ==
    IF S = {} THEN <<>>
    ELSE LET x == CHOOSE y \in S : \A z \in S : y <= z
         IN <<x>> \o Ascending(S \ {x})

DbGetCodeHashes(d, uo_hash) == Ascending(Dups(d.CodeHashes, uo_hash))

DbSetCodeHashes(d, uo_hash, hashes) ==
    LET kept == IF DbHasCodeHashes(d, uo_hash)
                THEN DeleteKey(d.CodeHashes, uo_hash)
                ELSE d.CodeHashes
    IN [st |-> [d EXCEPT !.CodeHashes =
                    kept \cup {<<uo_hash, hashes[i]>> : i \in DOMAIN hashes}],
        res |-> "Ok"]

\* remove that deletes the code hashes before it looks the operation up
DbRemoveDeletesFirst(d, uo_hash) ==
    IF uo_hash \notin DOMAIN d.UserOperations
    THEN [st |-> [d EXCEPT !.CodeHashes = DeleteKey(@, uo_hash)],
          res |-> "NotFound"]
    ELSE
      LET e == get_entities(d.UserOperations[uo_hash])
      IN [st |-> [UserOperations |-> MapRemove(d.UserOperations, uo_hash),
                  UserOperationsBySender |->
                      d.UserOperationsBySender \ {<<e.sender, uo_hash>>},
                  CodeHashes |-> DeleteKey(d.CodeHashes, uo_hash),
                  UserOperationsByEntity |->
                      {p \in d.UserOperationsByEntity : p[2] # uo_hash}],
          res |-> "Ok"]

DbRemove(d, uo_hash) ==
    IF uo_hash \notin DOMAIN d.UserOperations
    THEN [st |-> d, res |-> "NotFound"]
    ELSE
      LET e == get_entities(d.UserOperations[uo_hash])
          be1 == IF e.factory # 0
                 THEN d.UserOperationsByEntity \ {<<e.factory, uo_hash>>}
                 ELSE d.UserOperationsByEntity
          be2 == IF e.paymaster # 0
                 THEN be1 \ {<<e.paymaster, uo_hash>>}
                 ELSE be1
      IN [st |-> [UserOperations |-> MapRemove(d.UserOperations, uo_hash),
                  UserOperationsBySender |->
                      d.UserOperationsBySender \ {<<e.sender, uo_hash>>},
                  CodeHashes |-> DeleteKey(d.CodeHashes, uo_hash),
                  UserOperationsByEntity |-> be2],
          res |-> "Ok"]

\* for uo_hash_wrap in v { self.remove(..)?; }: each remove is a transaction
\* of its own, the first failure ends the loop.
RECURSIVE DbRemoveAll(_, _)
DbRemoveAll(d, v) ==
    IF v = {}
    THEN [st |-> d, res |-> "Ok"]
    ELSE LET uo_hash == CHOOSE h \in v : TRUE
             r == DbRemove(d, uo_hash)
         IN IF r.res # "Ok" THEN r ELSE DbRemoveAll(r.st, v \ {uo_hash})

\* remove_by_entity reading the by-sender table
DbRemoveByEntityReadsSenders(d, entity) ==
    DbRemoveAll(d, Dups(d.UserOperationsBySender, entity))

DbRemoveByEntity(d, entity) ==
    DbRemoveAll(d, Dups(d.UserOperationsByEntity, entity))

\* remove_by_entity in an environment that lets `ok` of its remove
\* transactions through and fails the next one (tx_mut, a delete or the
\* commit returns an error; the transaction is dropped and leaves no trace)
RECURSIVE DbRemoveAllUntil(_, _, _)
DbRemoveAllUntil(d, v, ok) ==
    IF v = {}
    THEN [st |-> d, res |-> "Ok"]
    ELSE IF ok = 0
    THEN [st |-> d, res |-> "DBError"]
    ELSE LET uo_hash == CHOOSE h \in v : TRUE
             r == DbRemove(d, uo_hash)
         IN IF r.res # "Ok" THEN r
            ELSE DbRemoveAllUntil(r.st, v \ {uo_hash}, ok - 1)

\* ---- one call as a write transaction: tx_mut, the writes in the order of
\* the code, commit. A write is a put or a delete on one table; value is {}
\* for delete(key, None) and {v} for put(key, v) and delete(key, Some(v)).
Write(kind, table, key, value) ==
    [kind |-> kind, table |-> table, key |-> key, value |-> value]

ApplyWrite(d, w) ==
    IF w.table = "UserOperations"
    THEN [d EXCEPT !.UserOperations =
            IF w.kind = "put"
            THEN MapInsert(@, w.key, CHOOSE v \in w.value : TRUE)
            ELSE MapRemove(@, w.key)]
    ELSE [d EXCEPT ![w.table] =
            IF w.kind = "put" THEN @ \cup {<<w.key, v>> : v \in w.value}
            ELSE IF w.value = {} THEN DeleteKey(@, w.key)
            ELSE @ \ {<<w.key, v>> : v \in w.value}]

\* the first n writes of ws
RECURSIVE ApplyWrites(_, _, _)
ApplyWrites(d, ws, n) ==
    IF n = 0 THEN d ELSE ApplyWrite(ApplyWrites(d, ws, n - 1), ws[n])

DbAddWrites(uo) ==
    LET hash == Hash(uo)
        e == get_entities(uo)
    IN  <<Write("put", "UserOperations", hash, {uo}),
          Write("put", "UserOperationsBySender", e.sender, {hash})>>
        \o (IF e.factory # 0
            THEN <<Write("put", "UserOperationsByEntity", e.factory, {hash})>>
            ELSE <<>>)
        \o (IF e.paymaster # 0
            THEN <<Write("put", "UserOperationsByEntity", e.paymaster, {hash})>>
            ELSE <<>>)

\* the writes of remove once the operation has been found
DbRemoveWrites(d, uo_hash) ==
    LET e == get_entities(d.UserOperations[uo_hash])
    IN  <<Write("delete", "UserOperations", uo_hash, {}),
          Write("delete", "UserOperationsBySender", e.sender, {uo_hash}),
          Write("delete", "CodeHashes", uo_hash, {})>>
        \o (IF e.factory # 0
            THEN <<Write("delete", "UserOperationsByEntity", e.factory,
                         {uo_hash})>>
            ELSE <<>>)
        \o (IF e.paymaster # 0
            THEN <<Write("delete", "UserOperationsByEntity", e.paymaster,
                         {uo_hash})>>
            ELSE <<>>)

DbSetCodeHashesWrites(d, uo_hash, hashes) ==
    (IF DbHasCodeHashes(d, uo_hash)
     THEN <<Write("delete", "CodeHashes", uo_hash, {})>>
     ELSE <<>>)
    \o [i \in DOMAIN hashes |-> Write("put", "CodeHashes", uo_hash, {hashes[i]})]

\* a transaction whose writes reach the tables one by one, so that the
\* writes made before an error stay
TransactionWritesThrough(d, ws, ok, res) ==
    IF ok > Len(ws)
    THEN [st |-> ApplyWrites(d, ws, Len(ws)), res |-> res]
    ELSE [st |-> ApplyWrites(d, ws, ok), res |-> "DBError"]

\* The environment lets `ok` steps of the transaction through (its writes,
\* then the commit) and fails the next one: `?` returns the error and drops
\* the transaction, which aborts it. A committed transaction applies all of
\* its writes at once.
Transaction(d, ws, ok, res) ==
    IF ok > Len(ws)
    THEN [st |-> ApplyWrites(d, ws, Len(ws)), res |-> res]
    ELSE [st |-> d, res |-> "DBError"]

DbGetSorted(d, values) == SortBy(values)

DbGetAll(d) == {d.UserOperations[h] : h \in DOMAIN d.UserOperations}

\* clear: UserOperations, UserOperationsBySender, UserOperationsByEntity
DbClear(d) ==
    [d EXCEPT !.UserOperations = EmptyMap,
              !.UserOperationsBySender = {},
              !.UserOperationsByEntity = {}]

\* ------------------------------------------------- the two backends driven
\* by the same calls (mempool_test_case runs one script against each)
IdxOps == Ops(Addresses, 0..MaxNonce, {0, MaxAddr}, {0, MaxAddr}, {1}, {1}, {0})
SortOps == Ops(Addresses, 0..MaxNonce, {0}, {0}, 1..MaxTip, {MaxTip}, {0})
CodeOps == Ops({1}, {0}, {0, MaxAddr}, {0}, {1}, {1}, {0})

CodeHashValues == 1..MaxCode
CodeHashLists == UNION {[1..n -> CodeHashValues] : n \in 0..MaxLen}

Hashes(U) == {Hash(uo) : uo \in U}
CodeKeys(d) == {p[1] : p \in d.CodeHashes}

Tasks == 1..MaxTasks

NoOp ==
    [sender |-> 0, nonce |-> 0, init_code |-> 0, paymaster_and_data |-> 0,
     max_priority_fee_per_gas |-> 0, max_fee_per_gas |-> 0, signature |-> 0,
     call_gas_limit |-> 0, verification_gas_limit |-> 0,
     pre_verification_gas |-> 0]

\* what the provider, the entry point and the reputation have answered to a
\* validation so far: each field is empty until the call is made
NoAnswers ==
    [code |-> {}, factory_info |-> {}, paymaster_code |-> {},
     paymaster_info |-> {}, status |-> {}, gas |-> {}, gas_price |-> {},
     sender_info |-> {}, simulation |-> {}, block |-> {}, statuses |-> {}]

\* what an error carries besides its kind
NoPayload ==
    [call_gas_limit |-> 0, call_gas_limit_expected |-> 0, message |-> "",
     entity |-> "", address |-> 0]

\* a validation: the call it awaits (pc), the check it stands in or ended in
\* (at), its verdict (res) with what the error carries (payload), how
\* verify_sender accepted (via), and, where the locks are looked at, the
\* step it is about to take (ip) and the guards it holds, oldest first (held)
IdleTask ==
    [pc |-> "idle", uo |-> NoOp, via |-> "none", res |-> "none",
     at |-> "none", env |-> NoAnswers, payload |-> NoPayload,
     ip |-> 0, held |-> <<>>]

\* the stores after construction
InitStores ==
    /\ mem = MemoryMempoolDefault
    /\ db = DatabaseMempoolNew
    /\ last = [op |-> "new", mem |-> "Ok", db |-> "Ok"]
    /\ tasks = [t \in Tasks |-> IdleTask]
    /\ rep = EmptyMap
    /\ results = EmptyMap

\* a release build; the setting only matters to the reputation arithmetic
Init == InitStores /\ overflow_checks = FALSE

Add(U) ==
    \E uo \in U :
        /\ Cardinality(DOMAIN mem.user_operations \cup {Hash(uo)}) <= MaxPool
        /\ mem' = MemAdd(mem, uo).st
        /\ db' = DbAdd(db, uo).st
        /\ last' = [op |-> "add", mem |-> MemAdd(mem, uo).res,
                    db |-> DbAdd(db, uo).res]
        /\ UNCHANGED <<tasks, rep, results, overflow_checks>>

Remove(U) ==
    \E uo_hash \in Hashes(U) :
        /\ mem' = MemRemove(mem, uo_hash).st
        /\ db' = DbRemove(db, uo_hash).st
        /\ last' = [op |-> "remove", mem |-> MemRemove(mem, uo_hash).res,
                    db |-> DbRemove(db, uo_hash).res]
        /\ UNCHANGED <<tasks, rep, results, overflow_checks>>

RemoveByEntity ==
    \E entity \in Addresses :
        /\ mem' = MemRemoveByEntity(mem, entity).st
        /\ db' = DbRemoveByEntity(db, entity).st
        /\ last' = [op |-> "remove_by_entity",
                    mem |-> MemRemoveByEntity(mem, entity).res,
                    db |-> DbRemoveByEntity(db, entity).res]
        /\ UNCHANGED <<tasks, rep, results, overflow_checks>>

\* The pool stores code hashes for operations it holds (UoPool stores them
\* for the operation it has just added).
SetCodeHashesOf(lists) ==
    \E uo_hash \in DOMAIN mem.user_operations, hashes \in lists :
        /\ Cardinality(CodeKeys(db) \cup {uo_hash}) <= MaxPool
        /\ mem' = MemSetCodeHashes(mem, uo_hash, hashes).st
        /\ db' = DbSetCodeHashes(db, uo_hash, hashes).st
        /\ last' = [op |-> "set_code_hashes",
                    mem |-> MemSetCodeHashes(mem, uo_hash, hashes).res,
                    db |-> DbSetCodeHashes(db, uo_hash, hashes).res]
        /\ UNCHANGED <<tasks, rep, results, overflow_checks>>

SetCodeHashes == SetCodeHashesOf(CodeHashLists)

Clear ==
    /\ mem' = MemClear(mem)
    /\ db' = DbClear(db)
    /\ last' = [op |-> "clear", mem |-> "Ok", db |-> "Ok"]
    /\ UNCHANGED <<tasks, rep, results, overflow_checks>>

GetSorted ==
    \E mo \in Orders(MemGetAll(mem)), do \in Orders(DbGetAll(db)) :
        /\ last' = [op |-> "get_sorted", mem |-> MemGetSorted(mem, mo),
                    db |-> DbGetSorted(db, do)]
        /\ UNCHANGED <<mem, db, tasks, rep, results, overflow_checks>>

\* add / remove / remove_by_entity / clear on both backends
Next == Add(IdxOps) \/ Remove(IdxOps) \/ RemoveByEntity \/ Clear

Spec == Init /\ [][Next]_vars

\* the same with get_sorted, over operations that differ in tip and nonce
NextSort == Add(SortOps) \/ Remove(SortOps) \/ Clear \/ GetSorted

SpecSort == Init /\ [][NextSort]_vars

\* the same with set_code_hashes
NextCode ==
    Add(CodeOps) \/ SetCodeHashes \/ Remove(CodeOps) \/ RemoveByEntity \/ Clear

SpecCode == Init /\ [][NextCode]_vars

\* Operations of one sender that all name the same factory, with or without
\* a paymaster (the factory's address again), resubmitted with another
\* signature; with set_code_hashes.
FrameOps == Ops({1}, 0..MaxNonce, {MaxAddr}, {0, MaxAddr}, {1}, {1}, {0, 1})

\* one code hash per operation (one contract touched during validation)
FrameLists == {<<c>> : c \in CodeHashValues}

NextFrame ==
    Add(FrameOps) \/ SetCodeHashesOf(FrameLists) \/ Remove(FrameOps)
        \/ RemoveByEntity

SpecFrame == Init /\ [][NextFrame]_vars

\* remove_by_entity with a database error in one of its remove
\* transactions; the in-memory pool cannot fail
RemoveByEntityFailing ==
    \E entity \in Addresses, ok \in 0..MaxPool :
        LET r == DbRemoveAllUntil(
                    db, Dups(db.UserOperationsByEntity, entity), ok)
        IN  /\ r.res = "DBError"
            /\ mem' = MemRemoveByEntity(mem, entity).st
            /\ db' = r.st
            /\ last' = [op |-> "remove_by_entity",
                        mem |-> MemRemoveByEntity(mem, entity).res,
                        db |-> r.res]
            /\ UNCHANGED <<tasks, rep, results, overflow_checks>>

\* one sender, so that any two operations share an entity
DbFailOps == Ops({1}, 0..MaxNonce, {0, MaxAddr}, {0, MaxAddr}, {1}, {1}, {0})

NextDbFail == Add(DbFailOps) \/ RemoveByEntity \/ RemoveByEntityFailing

SpecDbFail == Init /\ [][NextDbFail]_vars


\* ---- add, remove and set_code_hashes on the durable pool with a database
\* error in one of the transaction's steps
AddFailing(U) ==
    \E uo \in U :
        \E ok \in 0..Len(DbAddWrites(uo)) :
            LET r == Transaction(db, DbAddWrites(uo), ok, Hash(uo))
            IN  /\ db' = r.st
                /\ last' = [op |-> "add", mem |-> "none", db |-> r.res]
                /\ UNCHANGED <<mem, tasks, rep, results, overflow_checks>>

RemoveFailing ==
    \E uo_hash \in DOMAIN db.UserOperations :
        \E ok \in 0..Len(DbRemoveWrites(db, uo_hash)) :
            LET r == Transaction(db, DbRemoveWrites(db, uo_hash), ok, "Ok")
            IN  /\ db' = r.st
                /\ last' = [op |-> "remove", mem |-> "none", db |-> r.res]
                /\ UNCHANGED <<mem, tasks, rep, results, overflow_checks>>

SetCodeHashesFailing(lists) ==
    \E uo_hash \in DOMAIN db.UserOperations, hashes \in lists :
        \E ok \in 0..Len(DbSetCodeHashesWrites(db, uo_hash, hashes)) :
            LET r == Transaction(
                        db, DbSetCodeHashesWrites(db, uo_hash, hashes), ok, "Ok")
            IN  /\ db' = r.st
                /\ last' = [op |-> "set_code_hashes", mem |-> "none",
                            db |-> r.res]
                /\ UNCHANGED <<mem, tasks, rep, results, overflow_checks>>

\* operations of one sender with or without a factory and a paymaster
TxOps == Ops({1}, {0}, {0, MaxAddr}, {0, MaxAddr}, {1}, {1}, {0})

\* lists of one code hash and a list of two
TxLists == FrameLists \cup {<<1, MaxCode>>}

NextTx ==
    Add(TxOps) \/ SetCodeHashesOf(TxLists) \/ AddFailing(TxOps)
        \/ RemoveFailing \/ SetCodeHashesFailing(TxLists)

SpecTx == Init /\ [][NextTx]_vars


\* --------------------------------------------- validation and admission
\* UoPoolService with a MemoryMempool (as user_operation_sanity_check sets it
\* up); the durable tables play no part here.
min_stake == 1

PoolOps ==
    Ops({1}, 0..MaxNonce, {0}, {0}, 1..MaxTip, MaxTip..(MaxTip + 1), {0})

\* what entry_point.get_deposit_info(sender) may answer: an error, or the
\* sender's stake
DepositInfos ==
    {[ok |-> FALSE, stake |-> 0]} \cup [ok : {TRUE}, stake : 0..min_stake]

\* reputation.verify_stake("sender", info).is_ok()
VerifyStake(info) == info.stake >= min_stake

\* lines 274-291 against the pooled operation read as [0].  U256 `-` panics
\* when the result would be negative.
VerifySenderPrev(uo, prev) ==
    IF uo.max_priority_fee_per_gas < prev.max_priority_fee_per_gas
    THEN "Panic"
    ELSE IF /\ uo.sender = prev.sender
            /\ uo.nonce = prev.nonce
            /\ uo.max_priority_fee_per_gas > prev.max_priority_fee_per_gas
         THEN IF uo.max_fee_per_gas < prev.max_fee_per_gas
              THEN "Panic"
              ELSE IF uo.max_fee_per_gas - prev.max_fee_per_gas
                        = uo.max_priority_fee_per_gas - prev.max_priority_fee_per_gas
                   THEN "Ok"
                   ELSE "SenderVerification"
         ELSE "SenderVerification"

\* verify_sender holding a staked sender to the replacement rule as well
VerifySenderResumeNoExemption(m, uo, info) ==
    IF ~info.ok
    THEN {[res |-> "SenderVerification", via |-> "none"]}
    ELSE IF MemGetAllBySender(m, uo.sender) = {}
    THEN {[res |-> "Panic", via |-> "none"]}
    ELSE {[res |-> VerifySenderPrev(uo, prev), via |-> "replace"] :
            prev \in MemGetAllBySender(m, uo.sender)}

\* verify_sender from the answer of get_deposit_info on.  A set: the Vec of
\* get_all_by_sender comes in HashSet order, so [0] is any of the sender's
\* operations, and indexing an empty Vec panics.
VerifySenderResume(m, uo, info) ==
    IF ~info.ok
    THEN {[res |-> "SenderVerification", via |-> "none"]}
    ELSE IF VerifyStake(info)
    THEN {[res |-> "Ok", via |-> "staked"]}
    ELSE IF MemGetAllBySender(m, uo.sender) = {}
    THEN {[res |-> "Panic", via |-> "none"]}
    ELSE {[res |-> VerifySenderPrev(uo, prev), via |-> "replace"] :
            prev \in MemGetAllBySender(m, uo.sender)}

\* the checks with the fee check run before the call-gas check
ChecksFeeBeforeCallGas ==
    <<"sender_or_init_code", "verify_factory", "verification_gas",
      "verify_paymaster", "max_fee_per_gas", "call_gas_limit",
      "verify_sender">>

\* The checks of validate_user_operation, in the order it runs them.
Checks ==
    <<"sender_or_init_code", "verify_factory", "verification_gas",
      "verify_paymaster", "call_gas_limit", "max_fee_per_gas",
      "verify_sender">>

\* the position of a check in the order
IndexOf(c) == CHOOSE i \in 1..Len(Checks) : Checks[i] = c

\* verification_gas with its two comparisons in the other order
verification_gas_pre_first(uo) ==
    IF uo.pre_verification_gas < calculate_pre_verification_gas(uo)
    THEN "LowPreVerificationGas"
    ELSE IF uo.verification_gas_limit > max_verification_gas
    THEN "HighVerificationGasLimit"
    ELSE "Ok"

\* verification_gas, lines 90-110
verification_gas(uo) ==
    IF uo.verification_gas_limit > max_verification_gas
    THEN "HighVerificationGasLimit"
    ELSE IF uo.pre_verification_gas < calculate_pre_verification_gas(uo)
    THEN "LowPreVerificationGas"
    ELSE "Ok"

\* `?` on an Err: validate_user_operation returns the error of check c
Reject(c, r) == [pc |-> "rejected", at |-> c, res |-> r]

\* check c suspends on a call
Await(c, call) == [pc |-> call, at |-> c, res |-> "none"]

\* validate_user_operation from its i-th check on, up to the first call it
\* awaits or to its return: where the validation then stands.
RECURSIVE RunFrom(_, _)
RunFrom(i, uo) ==
    IF i > Len(Checks)
    THEN [pc |-> "validated", at |-> "done", res |-> "Ok"]
    ELSE LET c == Checks[i] IN
         CASE c = "sender_or_init_code" -> Await(c, "get_code")
           [] c = "verify_factory" ->
                IF uo.init_code = 0 THEN RunFrom(i + 1, uo)
                ELSE IF uo.init_code \notin Addresses
                THEN Reject(c, "FactoryVerification")
                ELSE Await(c, "get_deposit_info_factory")
           [] c = "verification_gas" ->
                IF verification_gas(uo) = "Ok" THEN RunFrom(i + 1, uo)
                ELSE Reject(c, verification_gas(uo))
           [] c = "verify_paymaster" ->
                IF uo.paymaster_and_data = 0 THEN RunFrom(i + 1, uo)
                ELSE IF uo.paymaster_and_data \notin Addresses
                THEN Reject(c, "PaymasterVerification")
                ELSE Await(c, "get_code_paymaster")
           [] c = "call_gas_limit" -> Await(c, "estimate_gas")
           [] c = "max_fee_per_gas" -> Await(c, "get_gas_price")
           [] c = "verify_sender" -> Await(c, "verify_sender")

\* check c has returned r: on Ok the validation goes on with the next check
Returned(c, r, uo) ==
    IF r = "Ok" THEN RunFrom(IndexOf(c) + 1, uo) ELSE Reject(c, r)

\* the task once it stands where o says
Stand(task, o) == [task EXCEPT !.pc = o.pc, !.at = o.at, !.res = o.res]

InFlight == {t \in Tasks : tasks[t].pc \in {"verify_sender", "get_deposit_info", "validated"}}

\* validate_user_operation is called with a new operation that has no
\* factory and no paymaster, on a chain where the checks before
\* verify_sender accept it: the operation gets its entry in
\* sanity_check_results and the task stands before verify_sender.
Submit(t) ==
    /\ tasks[t].pc = "idle"
    /\ Cardinality(DOMAIN mem.user_operations) + Cardinality(InFlight) < MaxPool
    /\ \E uo \in PoolOps :
         /\ Cardinality(DOMAIN results \cup {Hash(uo)}) <= MaxPool
         /\ results' = MapInsert(results, Hash(uo), {})
         /\ tasks' = [tasks EXCEPT ![t] =
                        [IdleTask EXCEPT !.pc = "verify_sender", !.uo = uo,
                                         !.at = "verify_sender"]]
    /\ UNCHANGED <<mem, db, last, rep, overflow_checks>>

\* verify_sender, lines 237-241: under the mempool lock, a sender without a
\* pooled operation passes at once.
VerifySenderCount(t) ==
    /\ tasks[t].pc = "verify_sender"
    /\ tasks' = [tasks EXCEPT ![t] =
                    IF MemGetNumberBySender(mem, tasks[t].uo.sender) = 0
                    THEN [Stand(@, Returned("verify_sender", "Ok", @.uo))
                            EXCEPT !.via = "empty"]
                    ELSE [@ EXCEPT !.pc = "get_deposit_info"]]
    /\ UNCHANGED <<mem, db, last, rep, results, overflow_checks>>

\* verify_sender, lines 243-291: get_deposit_info answers and the rest of the
\* check runs.
VerifySenderRest(t) ==
    /\ tasks[t].pc = "get_deposit_info"
    /\ \E info \in DepositInfos :
         \E o \in VerifySenderResume(mem, tasks[t].uo, info) :
            /\ tasks' = [tasks EXCEPT ![t] =
                           [Stand(@, Returned("verify_sender", o.res, @.uo))
                              EXCEPT !.via = o.via, !.env.sender_info = {info}]]
            /\ results' = IF o.via = "staked"
                          THEN EntryInsert(results, Hash(tasks[t].uo),
                                           "SenderVerified")
                          ELSE results
    /\ UNCHANGED <<mem, db, last, rep, overflow_checks>>

\* Admission after the simulation phases: mempool.add(uo, ep, chain_id).
Admit(t) ==
    /\ tasks[t].pc \in {"validated", "passed"}
    /\ mem' = MemAdd(mem, tasks[t].uo).st
    /\ tasks' = [tasks EXCEPT ![t] = [@ EXCEPT !.pc = "admitted"]]
    /\ UNCHANGED <<db, last, rep, results, overflow_checks>>

\* the caller has its answer
Finish(t) ==
    /\ tasks[t].pc \in {"admitted", "rejected"}
    /\ tasks' = [tasks EXCEPT ![t] = IdleTask]
    /\ UNCHANGED <<mem, db, last, rep, results, overflow_checks>>

\* remove_user_operation of a pooled operation (it was bundled)
PoolRemove ==
    /\ \E uo_hash \in DOMAIN mem.user_operations :
         mem' = MemRemove(mem, uo_hash).st
    /\ UNCHANGED <<db, last, tasks, rep, results, overflow_checks>>

NextPool ==
    \/ \E t \in Tasks :
         Submit(t) \/ VerifySenderCount(t) \/ VerifySenderRest(t)
            \/ Admit(t) \/ Finish(t)
    \/ PoolRemove

SpecPool == Init /\ [][NextPool]_vars


\* ------------------------------------------------- the sanity checks
\* validate_user_operation from its first check on, each call it awaits
\* answered by the chain in a step of its own.

\* U256 holds the values up to MaxU256; `+` panics beyond it and `-` panics
\* below zero.
MaxU256 == MaxTip + 1

\* The operations submitted for validation: with or without factory and
\* paymaster (or with a byte string too short to hold an address), gas
\* limits on both sides of what the gas checks ask, fees on both sides of
\* what the fee check asks.
SanityOps ==
    [sender : {1}, nonce : 0..MaxNonce,
     init_code : {0, MaxAddr, Short},
     paymaster_and_data : {0, MaxAddr, Short},
     max_priority_fee_per_gas : 1..MaxU256,
     max_fee_per_gas : MaxTip..MaxU256,
     signature : {0},
     call_gas_limit : (MaxGas - 1)..MaxGas,
     verification_gas_limit : {max_verification_gas, max_verification_gas + 1},
     pre_verification_gas : {1, 1 + 2}]

\* the operations the sender may have in the pool when it submits another:
\* one with the lowest fees and one with the highest
SeedOps ==
    Ops({1}, {0}, {0}, {0}, {1}, {MaxTip}, {0})
        \cup Ops({1}, {0}, {0}, {0}, {MaxU256}, {MaxU256}, {0})

\* eth_provider.get_code: an error, empty code, or code
Codes == {"err", "empty", "code"}

\* entry_point.get_deposit_info(paymaster): an error, or the deposit
PaymasterInfos ==
    {[ok |-> FALSE, deposit |-> 0]}
        \cup [ok : {TRUE}, deposit : (MaxU256 - 1)..MaxU256]

\* reputation.get_status(paymaster)
Statuses == {"OK", "THROTTLED", "BANNED"}

\* eth_provider.estimate_gas: an error, or the estimation
GasEstimates == {[ok |-> FALSE, gas |-> 0], [ok |-> TRUE, gas |-> MaxGas]}

\* eth_provider.get_gas_price: an error, or the price
GasPrices == {[ok |-> FALSE, price |-> 0]} \cup [ok : {TRUE}, price : 0..1]

\* sender_or_init_code reading a failed get_code as empty code
sender_or_init_code_error_as_empty(uo, code) ==
    IF (code # "code" /\ uo.init_code = 0) \/ (code = "code" /\ uo.init_code # 0)
    THEN "SenderOrInitCode"
    ELSE "Ok"

\* sender_or_init_code, lines 24-38, from the answer of get_code on
sender_or_init_code(uo, code) ==
    IF code = "err" THEN "Middleware"
    ELSE IF \/ (code = "empty" /\ uo.init_code = 0)
            \/ (code # "empty" /\ uo.init_code # 0)
    THEN "SenderOrInitCode"
    ELSE "Ok"

\* verify_factory letting a failed deposit lookup pass without a flag
verify_factory_lookup_error_passes(uo, info) ==
    [res |-> "Ok",
     flags |-> IF info.ok /\ VerifyStake(info) THEN {"FactoryVerified"} ELSE {}]

\* verify_factory, lines 57-84, from the answer of get_deposit_info on: the
\* verdict and the flag it records
verify_factory(uo, info) ==
    IF ~info.ok
    THEN [res |-> "FactoryVerification", flags |-> {}]
    ELSE [res |-> "Ok",
          flags |-> IF VerifyStake(info) THEN {"FactoryVerified"} ELSE {}]

\* verify_paymaster, lines 128-134, from the answer of get_code on
verify_paymaster_code(code) ==
    IF code = "err" THEN "Middleware"
    ELSE IF code = "empty" THEN "PaymasterVerification"
    ELSE "Ok"

\* verify_paymaster, lines 140-160, from the answer of get_deposit_info on
verify_paymaster(uo, info, status) ==
    IF ~info.ok
    THEN [res |-> "PaymasterVerification", flags |-> {}]
    ELSE [res |-> "Ok",
          flags |-> IF info.deposit > uo.max_fee_per_gas /\ status # "BANNED"
                    THEN {"PaymasterVerified"} ELSE {}]

\* call_gas_limit, lines 180-187, from the answer of estimate_gas on
call_gas_limit(uo, est) ==
    IF ~est.ok THEN "Middleware"
    ELSE IF uo.call_gas_limit < est.gas THEN "LowCallGasLimit"
    ELSE "Ok"

\* max_fee_per_gas, lines 202-226, from the answer of get_gas_price on
max_fee_per_gas(uo, answer) ==
    IF ~answer.ok THEN "Middleware"
    ELSE IF uo.max_priority_fee_per_gas > uo.max_fee_per_gas
    THEN "HighMaxPriorityFeePerGas"
    ELSE IF answer.price + uo.max_priority_fee_per_gas > MaxU256
    THEN "Panic"
    ELSE IF answer.price + uo.max_priority_fee_per_gas > uo.max_fee_per_gas
    THEN "LowMaxFeePerGas"
    ELSE IF uo.max_priority_fee_per_gas < min_priority_fee_per_gas
    THEN "LowMaxPriorityFeePerGas"
    ELSE "Ok"

\* the flags a check adds to the operation's entry of sanity_check_results
AddFlags(map, k, flags) ==
    IF flags = {} THEN map
    ELSE [x \in (DOMAIN map) \cup {k} |->
            IF x = k
            THEN (IF k \in DOMAIN map THEN map[k] ELSE {}) \cup flags
            ELSE map[x]]

\* the tasks that run a validation from its first check
SanityTasks == {1}

\* validate_user_operation is called: lines 298-301 give the operation an
\* empty entry in sanity_check_results, then the first check starts.
ValidateOf(t, U) ==
    /\ tasks[t].pc = "idle"
    /\ \E uo \in U :
         /\ results' = MapInsert(results, Hash(uo), {})
         /\ tasks' = [tasks EXCEPT ![t] =
                        Stand([IdleTask EXCEPT !.uo = uo], RunFrom(1, uo))]
    /\ UNCHANGED <<mem, db, last, rep, overflow_checks>>

Validate(t) == ValidateOf(t, SanityOps)

\* get_code(sender) answers: sender_or_init_code returns
GetCode(t) ==
    /\ tasks[t].pc = "get_code"
    /\ \E code \in Codes :
         tasks' = [tasks EXCEPT ![t] =
                     [Stand(@, Returned(@.at, sender_or_init_code(@.uo, code), @.uo))
                        EXCEPT !.env.code = {code}]]
    /\ UNCHANGED <<mem, db, last, rep, results, overflow_checks>>

\* get_deposit_info(factory) answers: verify_factory returns
FactoryDepositInfo(t) ==
    /\ tasks[t].pc = "get_deposit_info_factory"
    /\ \E info \in DepositInfos :
         LET o == verify_factory(tasks[t].uo, info) IN
         /\ tasks' = [tasks EXCEPT ![t] =
                        [Stand(@, Returned(@.at, o.res, @.uo))
                           EXCEPT !.env.factory_info = {info}]]
         /\ results' = AddFlags(results, Hash(tasks[t].uo), o.flags)
    /\ UNCHANGED <<mem, db, last, rep, overflow_checks>>

\* get_code(paymaster) answers: verify_paymaster returns or asks for the
\* paymaster's deposit
PaymasterCode(t) ==
    /\ tasks[t].pc = "get_code_paymaster"
    /\ \E code \in Codes :
         tasks' = [tasks EXCEPT ![t] =
                     [(IF verify_paymaster_code(code) = "Ok"
                       THEN [@ EXCEPT !.pc = "get_deposit_info_paymaster"]
                       ELSE Stand(@, Reject(@.at, verify_paymaster_code(code))))
                        EXCEPT !.env.paymaster_code = {code}]]
    /\ UNCHANGED <<mem, db, last, rep, results, overflow_checks>>

\* get_deposit_info(paymaster) answers: verify_paymaster reads the
\* paymaster's status and returns
PaymasterDepositInfo(t) ==
    /\ tasks[t].pc = "get_deposit_info_paymaster"
    /\ \E info \in PaymasterInfos, status \in Statuses :
         LET o == verify_paymaster(tasks[t].uo, info, status) IN
         /\ tasks' = [tasks EXCEPT ![t] =
                        [Stand(@, Returned(@.at, o.res, @.uo))
                           EXCEPT !.env.paymaster_info = {info},
                                  !.env.status =
                                     IF info.ok /\ info.deposit > tasks[t].uo.max_fee_per_gas
                                     THEN {status} ELSE {}]]
         /\ results' = AddFlags(results, Hash(tasks[t].uo), o.flags)
    /\ UNCHANGED <<mem, db, last, rep, overflow_checks>>

\* estimate_gas answers: call_gas_limit returns
EstimateGas(t) ==
    /\ tasks[t].pc = "estimate_gas"
    /\ \E est \in GasEstimates :
         tasks' = [tasks EXCEPT ![t] =
                     [Stand(@, Returned(@.at, call_gas_limit(@.uo, est), @.uo))
                        EXCEPT !.env.gas = {est}]]
    /\ UNCHANGED <<mem, db, last, rep, results, overflow_checks>>

\* get_gas_price answers: max_fee_per_gas returns
GetGasPrice(t) ==
    /\ tasks[t].pc = "get_gas_price"
    /\ \E answer \in GasPrices :
         tasks' = [tasks EXCEPT ![t] =
                     [Stand(@, Returned(@.at, max_fee_per_gas(@.uo, answer), @.uo))
                        EXCEPT !.env.gas_price = {answer}]]
    /\ UNCHANGED <<mem, db, last, rep, results, overflow_checks>>

\* the calls a validation is suspended on
Suspended ==
    {"get_code", "get_deposit_info_factory", "get_code_paymaster",
     "get_deposit_info_paymaster", "estimate_gas", "get_gas_price",
     "get_deposit_info"}

\* The caller drops the future of validate_user_operation while it is
\* suspended: nothing of it runs any more.
Cancel(t) ==
    /\ tasks[t].pc \in Suspended
    /\ tasks' = [tasks EXCEPT ![t] = [@ EXCEPT !.pc = "cancelled"]]
    /\ UNCHANGED <<mem, db, last, rep, results, overflow_checks>>

NextSanity ==
    \/ Add(SeedOps)
    \/ \E t \in SanityTasks :
         \/ Validate(t) \/ GetCode(t) \/ FactoryDepositInfo(t)
         \/ PaymasterCode(t) \/ PaymasterDepositInfo(t)
         \/ EstimateGas(t) \/ GetGasPrice(t)
         \/ VerifySenderCount(t) \/ VerifySenderRest(t)
         \/ Cancel(t)

SpecSanity == Init /\ [][NextSanity]_vars

\* ---- validations one after another and side by side (the service is
\* shared by the RPC handlers), of an operation with a factory, with or
\* without a paymaster, whose gas limits and fees pass
FlagOps == Ops({1}, {0}, {MaxAddr}, {0, MaxAddr}, {MaxTip}, {MaxTip}, {0})

\* validate_user_operation has returned to its caller
Return(t) ==
    /\ tasks[t].pc \in {"validated", "rejected"}
    /\ tasks' = [tasks EXCEPT ![t] = IdleTask]
    /\ UNCHANGED <<mem, db, last, rep, results, overflow_checks>>

\* the operation the sender may have in the pool
FlagSeeds == Ops({1}, {0}, {0}, {0}, {1}, {MaxTip}, {0})

NextFlags ==
    \/ Add(FlagSeeds)
    \/ \E t \in Tasks :
         \/ ValidateOf(t, FlagOps) \/ GetCode(t) \/ FactoryDepositInfo(t)
         \/ PaymasterCode(t) \/ PaymasterDepositInfo(t)
         \/ EstimateGas(t) \/ GetGasPrice(t)
         \/ VerifySenderCount(t) \/ VerifySenderRest(t)
         \/ Return(t)

SpecFlags == Init /\ [][NextFlags]_vars

\* ------------------------------------------------ the call-gas check
\* CallGas::check_user_operation of the SanityCheck pipeline, run on its own.

\* the gas a CALL with value is given on top of what it pays for
CALL_STIPEND == 1

\* utils::calculate_call_gas_limit(paid, pre_op_gas, fee_per_gas)
calculate_call_gas_limit(paid, pre_op_gas, fee_per_gas) ==
    (paid - pre_op_gas * fee_per_gas) \div fee_per_gas + CALL_STIPEND

Min(a, b) == IF a <= b THEN a ELSE b

\* The operations checked: fees such that the effective gas price is never
\* zero, call gas limits on both sides of every limit the answers below
\* lead to.
CallGasOps ==
    [sender : {1}, nonce : {0}, init_code : {0}, paymaster_and_data : {0},
     max_priority_fee_per_gas : 1..MaxU256,
     max_fee_per_gas : MaxTip..MaxU256,
     signature : {0},
     call_gas_limit : 1..(MaxU256 + 1),
     verification_gas_limit : {max_verification_gas},
     pre_verification_gas : {1}]

\* entry_point.simulate_handle_op: a FailedOp with its reason, another
\* error, or the execution result; what was paid covers the gas used before
\* the operation at any gas price
Simulations ==
    {[kind |-> "FailedOp", reason |-> "AA21", paid |-> 0, pre_op_gas |-> 0],
     [kind |-> "Err", reason |-> "", paid |-> 0, pre_op_gas |-> 0]}
        \cup [kind : {"Ok"}, reason : {""}, paid : {MaxU256},
              pre_op_gas : 0..1]

\* eth_client().get_block(Latest): an error, no block, a block without base
\* fee, or a block with its base fee
Blocks ==
    [kind : {"Err", "None", "NoBaseFee"}, base_fee_per_gas : {0}]
        \cup [kind : {"Block"}, base_fee_per_gas : 0..1]

\* lines 32-45: from the answer of simulate_handle_op on
call_gas_simulated(sim) ==
    IF sim.kind = "FailedOp"
    THEN [res |-> "Validation",
          payload |-> [NoPayload EXCEPT !.message = sim.reason]]
    ELSE IF sim.kind = "Err"
    THEN [res |-> "UnknownError", payload |-> NoPayload]
    ELSE [res |-> "Ok", payload |-> NoPayload]

\* lines 47-77: from the answer of get_block on
call_gas_block(uo, sim, block) ==
    IF block.kind # "Block"
    THEN [res |-> "UnknownError", payload |-> NoPayload]
    ELSE IF uo.max_priority_fee_per_gas + block.base_fee_per_gas > MaxU256
    THEN [res |-> "Panic", payload |-> NoPayload]
    ELSE LET call_gas_limit_expected ==
                calculate_call_gas_limit(
                    sim.paid, sim.pre_op_gas,
                    Min(uo.max_fee_per_gas,
                        uo.max_priority_fee_per_gas + block.base_fee_per_gas))
         IN  IF uo.call_gas_limit >= call_gas_limit_expected
             THEN [res |-> "Ok", payload |-> NoPayload]
             ELSE [res |-> "LowCallGasLimit",
                   payload |->
                      [NoPayload EXCEPT
                          !.call_gas_limit = uo.call_gas_limit,
                          !.call_gas_limit_expected = call_gas_limit_expected]]

\* how a check that has returned o leaves the task
Checked(task, o) ==
    [task EXCEPT !.pc = IF o.res = "Ok" THEN "passed" ELSE "rejected",
                 !.res = o.res, !.payload = o.payload]

\* check_user_operation is called and awaits the simulation
CallGasCheck(t) ==
    /\ tasks[t].pc = "idle"
    /\ \E uo \in CallGasOps :
         tasks' = [tasks EXCEPT ![t] =
                     [IdleTask EXCEPT !.uo = uo, !.at = "CallGas",
                                      !.pc = "simulate_handle_op"]]
    /\ UNCHANGED <<mem, db, last, rep, results, overflow_checks>>

\* simulate_handle_op answers: the check returns its error or asks for the
\* latest block
SimulateHandleOp(t) ==
    /\ tasks[t].pc = "simulate_handle_op"
    /\ \E sim \in Simulations :
         tasks' = [tasks EXCEPT ![t] =
                     [(IF call_gas_simulated(sim).res = "Ok"
                       THEN [@ EXCEPT !.pc = "get_block"]
                       ELSE Checked(@, call_gas_simulated(sim)))
                        EXCEPT !.env.simulation = {sim}]]
    /\ UNCHANGED <<mem, db, last, rep, results, overflow_checks>>

\* get_block answers: the check returns
GetBlock(t) ==
    /\ tasks[t].pc = "get_block"
    /\ \E block \in Blocks : \E sim \in tasks[t].env.simulation :
         tasks' = [tasks EXCEPT ![t] =
                     [Checked(@, call_gas_block(@.uo, sim, block))
                        EXCEPT !.env.block = {block}]]
    /\ UNCHANGED <<mem, db, last, rep, results, overflow_checks>>

NextCallGas ==
    \E t \in SanityTasks : CallGasCheck(t) \/ SimulateHandleOp(t) \/ GetBlock(t)

SpecCallGas == Init /\ [][NextCallGas]_vars


\* ------------------------------------------------- the entities check
\* Entities::check_user_operation of the SanityCheck pipeline, run on its
\* own against the in-memory pool.

\* the number of pooled operations a throttled entity may have
THROTTLED_ENTITY_MEMPOOL_COUNT == 2

\* the operations checked: one sender, with and without factory and
\* paymaster (the same contract when both are there)
EntityOps == Ops({1}, 0..MaxNonce, {0, MaxAddr}, {0, MaxAddr}, {1}, {1}, {0})

\* reputation.get_status: an error, or the status
StatusAnswers == {"Err"} \cup Statuses

\* what the reputation answers for the sender and for the contract at the
\* time of a check
StatusTables == [{1, MaxAddr} -> StatusAnswers]

\* get_status, check_banned and check_throttled for one entity (lines
\* 22-87), with the sender's operations left out of the count
check_entity_by_entity_only(m, entity, addr, status) ==
    IF status = "Err"
    THEN [res |-> "UnknownError",
          payload |-> [NoPayload EXCEPT
                         !.message = "Failed to retrieve reputation status"]]
    ELSE IF status = "BANNED"
    THEN [res |-> "EntityBanned",
          payload |-> [NoPayload EXCEPT !.entity = entity, !.address = addr]]
    ELSE IF /\ status = "THROTTLED"
            /\ MemGetNumberByEntity(m, addr) >= THROTTLED_ENTITY_MEMPOOL_COUNT
    THEN [res |-> "ThrottledLimit",
          payload |-> [NoPayload EXCEPT !.entity = entity, !.address = addr]]
    ELSE [res |-> "Ok", payload |-> NoPayload]

\* get_status, check_banned and check_throttled for one entity, lines 22-87
check_entity(m, entity, addr, status) ==
    IF status = "Err"
    THEN [res |-> "UnknownError",
          payload |-> [NoPayload EXCEPT
                         !.message = "Failed to retrieve reputation status"]]
    ELSE IF status = "BANNED"
    THEN [res |-> "EntityBanned",
          payload |-> [NoPayload EXCEPT !.entity = entity, !.address = addr]]
    ELSE IF /\ status = "THROTTLED"
            /\ MemGetNumberBySender(m, addr) + MemGetNumberByEntity(m, addr)
                  >= THROTTLED_ENTITY_MEMPOOL_COUNT
    THEN [res |-> "ThrottledLimit",
          payload |-> [NoPayload EXCEPT !.entity = entity, !.address = addr]]
    ELSE [res |-> "Ok", payload |-> NoPayload]

\* Entities::check_user_operation, lines 117-138: sender, then factory, then
\* paymaster, each with `?`
entities_check(m, uo, status) ==
    LET e == get_entities(uo)
        sender == check_entity(m, "sender", e.sender, status[e.sender])
        factory == check_entity(m, "factory", e.factory, status[e.factory])
        paymaster ==
            check_entity(m, "paymaster", e.paymaster, status[e.paymaster])
    IN  IF sender.res # "Ok" THEN sender
        ELSE IF e.factory # 0 /\ factory.res # "Ok" THEN factory
        ELSE IF e.paymaster # 0 /\ paymaster.res # "Ok" THEN paymaster
        ELSE [res |-> "Ok", payload |-> NoPayload]

\* check_user_operation runs (it awaits nothing): the reputation answers
\* with one of the tables of F for an operation of U
EntitiesCheck(t, U, F) ==
    /\ tasks[t].pc = "idle"
    /\ \E uo \in U, status \in F :
         tasks' = [tasks EXCEPT ![t] =
                     Checked([IdleTask EXCEPT !.uo = uo, !.at = "Entities",
                                              !.env.statuses = {status}],
                             entities_check(mem, uo, status))]
    /\ UNCHANGED <<mem, db, last, rep, results, overflow_checks>>

NextEntities ==
    \/ Add(EntityOps)
    \/ \E t \in SanityTasks : EntitiesCheck(t, EntityOps, StatusTables)

SpecEntities == Init /\ [][NextEntities]_vars

\* Concurrent admissions of operations that name a throttled paymaster: each
\* runs the entities check and, when it passes, adds its operation.
ThrottleOps == Ops({1}, 0..MaxNonce, {0}, {MaxAddr}, 1..MaxTip, {MaxTip}, {0})

\* the sender is OK and the paymaster THROTTLED, all along
ThrottledTables ==
    {[a \in {1, MaxAddr} |-> IF a = MaxAddr THEN "THROTTLED" ELSE "OK"]}

NextThrottle ==
    \E t \in Tasks :
        EntitiesCheck(t, ThrottleOps, ThrottledTables) \/ Admit(t) \/ Finish(t)

SpecThrottle == Init /\ [][NextThrottle]_vars


\* ------------------------------------------- the locks of a validation
\* validate_user_operation as the sequence of lock operations and awaited
\* calls it makes when every check runs in full (a factory, a paymaster, a
\* sender with a pooled operation).  The three RwLocks are mempools,
\* reputations and sanity_check_results.

Acquire(lock, mode, skip) ==
    [op |-> "acquire", lock |-> lock, mode |-> mode, skip |-> skip]

Release(lock) == [op |-> "release", lock |-> lock, mode |-> "", skip |-> 0]

AwaitCall(call) == [op |-> "await", lock |-> call, mode |-> "", skip |-> 0]

\* `if let Some(reputation) = self.reputations.read().get(..)` with the
\* write to sanity_check_results inside it: the read guard lives to the end
\* of the if-let; the inner write is made only if the entity is verified
\* (skip names the step after the inner release).
FlagBlock(first) ==
    <<Acquire("reputations", "read", 0),
      Acquire("sanity_check_results", "write", first + 3),
      Release("sanity_check_results"),
      Release("reputations")>>

\* verify_sender with the two guards of its flag block taken the other way
\* round
LockProgramResultsFirst ==
    <<Acquire("sanity_check_results", "write", 0),
      Release("sanity_check_results"),
      AwaitCall("get_code"),
      AwaitCall("get_deposit_info")>>
    \o FlagBlock(5)
    \o <<AwaitCall("get_code"),
         AwaitCall("get_deposit_info")>>
    \o FlagBlock(11)
    \o <<AwaitCall("estimate_gas"),
         AwaitCall("get_gas_price"),
         Acquire("mempools", "write", 0),
         Release("mempools"),
         AwaitCall("get_deposit_info"),
         Acquire("sanity_check_results", "write", 0),
         Acquire("reputations", "read", 0),
         Release("reputations"),
         Release("sanity_check_results"),
         Acquire("mempools", "write", 0),
         Release("mempools")>>

\* lines 298-301, then the checks in the order of lines 304-323
LockProgram ==
    <<Acquire("sanity_check_results", "write", 0),
      Release("sanity_check_results"),
      AwaitCall("get_code"),
      AwaitCall("get_deposit_info")>>
    \o FlagBlock(5)
    \o <<AwaitCall("get_code"),
         AwaitCall("get_deposit_info")>>
    \o FlagBlock(11)
    \o <<AwaitCall("estimate_gas"),
         AwaitCall("get_gas_price"),
         Acquire("mempools", "write", 0),
         Release("mempools"),
         AwaitCall("get_deposit_info")>>
    \o FlagBlock(20)
    \o <<Acquire("mempools", "write", 0),
         Release("mempools")>>

\* the guards other tasks hold on a lock
HeldByOthers(t, lock) ==
    {g \in UNION {{tasks[u].held[i] : i \in 1..Len(tasks[u].held)} :
                     u \in Tasks \ {t}} : g.lock = lock}

\* RwLock: a write guard excludes every other guard, a read guard excludes
\* write guards
Available(t, lock, mode) ==
    IF mode = "write"
    THEN HeldByOthers(t, lock) = {}
    ELSE \A g \in HeldByOthers(t, lock) : g.mode = "read"

Running(t) == tasks[t].at = "locks" /\ tasks[t].pc = "running"

\* the step a running validation is about to take
NextStep(t) == LockProgram[tasks[t].ip]

\* a running validation can take its step
CanStep(t) ==
    /\ Running(t)
    /\ NextStep(t).op = "acquire"
          => Available(t, NextStep(t).lock, NextStep(t).mode)

\* where the task stands after its step at ip
Advance(task, held) ==
    IF task.ip = Len(LockProgram)
    THEN [task EXCEPT !.pc = "returned", !.ip = 0, !.held = <<>>,
                      !.res = "Ok"]
    ELSE [task EXCEPT !.ip = @ + 1, !.held = held]

\* validate_user_operation is called
LockStart(t) ==
    /\ tasks[t].pc = "idle"
    /\ tasks' = [tasks EXCEPT ![t] =
                    [IdleTask EXCEPT !.pc = "running", !.at = "locks",
                                     !.ip = 1]]
    /\ UNCHANGED <<mem, db, last, rep, results, overflow_checks>>

\* the validation takes its next step: it gets the guard it asks for, drops
\* the guard it took last, or awaits a call
LockStep(t) ==
    /\ CanStep(t)
    /\ LET step == NextStep(t)
           held == tasks[t].held
       IN  tasks' = [tasks EXCEPT ![t] =
                       Advance(@,
                          CASE step.op = "acquire" ->
                                 Append(held, [lock |-> step.lock,
                                               mode |-> step.mode])
                            [] step.op = "release" ->
                                 SubSeq(held, 1, Len(held) - 1)
                            [] step.op = "await" -> held)]
    /\ UNCHANGED <<mem, db, last, rep, results, overflow_checks>>

\* the condition around a flag write is false: the write is not made
LockSkip(t) ==
    /\ Running(t)
    /\ NextStep(t).skip # 0
    /\ tasks' = [tasks EXCEPT ![t] = [@ EXCEPT !.ip = NextStep(t).skip]]
    /\ UNCHANGED <<mem, db, last, rep, results, overflow_checks>>

\* a check returns early (an error with `?`, or Ok from verify_sender): the
\* guards it holds are dropped
LockReturn(t) ==
    /\ Running(t)
    /\ tasks' = [tasks EXCEPT ![t] =
                    [@ EXCEPT !.pc = "returned", !.ip = 0, !.held = <<>>]]
    /\ UNCHANGED <<mem, db, last, rep, results, overflow_checks>>

NextLocks ==
    \E t \in Tasks : LockStart(t) \/ LockStep(t) \/ LockSkip(t) \/ LockReturn(t)

SpecLocks == Init /\ [][NextLocks]_vars


\* ------------------------------------------------------------ reputation
\* DatabaseTable<E, EntitiesReputation>: address -> ReputationEntry, one row
\* per address.  uo_seen and uo_included are u64; here they are CounterBits
\* wide.
CounterBits == 10
CounterMax == 2 ^ CounterBits - 1

\* the entities whose reputation is followed: a sender and the address that
\* factories and paymasters are drawn from
RepAddrs == {1, MaxAddr}

\* the entries set_entry is called with
RepEntries ==
    {[uo_seen |-> 1, uo_included |-> 0],
     [uo_seen |-> 24, uo_included |-> 24],
     [uo_seen |-> CounterMax, uo_included |-> 1],
     [uo_seen |-> CounterMax, uo_included |-> CounterMax \div 23]}

\* tx.put::<EntitiesReputation>(addr, entry); returns the row it replaces
DbSetEntry(table, addr, entry) ==
    [st |-> MapInsert(table, addr, entry),
     res |-> IF addr \in DOMAIN table THEN {table[addr]} ELSE {}]

\* counter * 23 does not fit the counter's width
Overflows(counter) == counter * 23 > CounterMax

\* counter * 23 / 24 in wrapping arithmetic
Decay(counter) == ((counter * 23) % (CounterMax + 1)) \div 24

\* the cursor loop of update over the rows `todo` still ahead of the cursor,
\* in key order: the row is rewritten with both counters decayed, or deleted
\* when both are 0 (next after delete_current yields the row that followed
\* the deleted one).
RECURSIVE UpdateLoop(_, _)
UpdateLoop(table, todo) ==
    IF todo = {} THEN table
    ELSE LET addr == CHOOSE a \in todo : \A b \in todo : a <= b
             ent == [uo_seen |-> Decay(table[addr].uo_seen),
                     uo_included |-> Decay(table[addr].uo_included)]
         IN UpdateLoop(IF ent.uo_seen > 0 \/ ent.uo_included > 0
                       THEN [table EXCEPT ![addr] = ent]
                       ELSE MapRemove(table, addr),
                       todo \ {addr})

\* update: with overflow checks the multiplication panics on the first
\* counter it does not fit, the write transaction is dropped uncommitted;
\* without them it wraps.
DbUpdate(table, checks) ==
    IF checks /\ \E a \in DOMAIN table :
                    Overflows(table[a].uo_seen) \/ Overflows(table[a].uo_included)
    THEN [st |-> table, res |-> "Panic"]
    ELSE [st |-> UpdateLoop(table, DOMAIN table), res |-> "Ok"]

\* the cursor loop when cursor.next() returns an error after `ok` rows:
\* `while let Ok(Some(..))` does not match the Err and the loop ends as it
\* does at the end of the table
RECURSIVE UpdateLoopUntil(_, _, _)
UpdateLoopUntil(table, todo, ok) ==
    IF todo = {} \/ ok = 0 THEN table
    ELSE LET addr == CHOOSE a \in todo : \A b \in todo : a <= b
             ent == [uo_seen |-> Decay(table[addr].uo_seen),
                     uo_included |-> Decay(table[addr].uo_included)]
         IN UpdateLoopUntil(IF ent.uo_seen > 0 \/ ent.uo_included > 0
                            THEN [table EXCEPT ![addr] = ent]
                            ELSE MapRemove(table, addr),
                            todo \ {addr}, ok - 1)

\* the first n addresses of S in key order
RECURSIVE FirstKeys(_, _)
FirstKeys(S, n) ==
    IF S = {} \/ n = 0 THEN {}
    ELSE LET a == CHOOSE x \in S : \A y \in S : x <= y
         IN {a} \cup FirstKeys(S \ {a}, n - 1)

\* update with a cursor read that fails after `ok` rows: the rows read so
\* far are rewritten, the loop is left, tx.commit() and Ok(()) follow
DbUpdateCursorError(table, checks, ok) ==
    IF checks /\ \E a \in FirstKeys(DOMAIN table, ok) :
                    Overflows(table[a].uo_seen) \/ Overflows(table[a].uo_included)
    THEN [st |-> table, res |-> "Panic"]
    ELSE [st |-> UpdateLoopUntil(table, DOMAIN table, ok), res |-> "Ok"]

\* the profile the binary was built with
InitRep == InitStores /\ overflow_checks \in BOOLEAN

SetEntry ==
    \E addr \in RepAddrs, entry \in RepEntries :
        /\ rep' = DbSetEntry(rep, addr, entry).st
        /\ last' = [op |-> "set_entry", mem |-> "none", db |-> "Ok"]
        /\ UNCHANGED <<mem, db, tasks, results, overflow_checks>>

\* one reputation tick
Update ==
    /\ rep' = DbUpdate(rep, overflow_checks).st
    /\ last' = [op |-> "update", mem |-> "none",
                db |-> DbUpdate(rep, overflow_checks).res]
    /\ UNCHANGED <<mem, db, tasks, results, overflow_checks>>

\* one reputation tick during which a cursor read fails before the end of
\* the table
UpdateCursorError ==
    \E ok \in 0..(Cardinality(DOMAIN rep) - 1) :
        /\ rep' = DbUpdateCursorError(rep, overflow_checks, ok).st
        /\ last' = [op |-> "update (cursor error)", mem |-> "none",
                    db |-> DbUpdateCursorError(rep, overflow_checks, ok).res]
        /\ UNCHANGED <<mem, db, tasks, results, overflow_checks>>

NextRep == SetEntry \/ Update

SpecRep == InitRep /\ [][NextRep]_vars

\* The same with the timer's ticks the only calls made from some point on:
\* every reputation hour a tick, for ever.
SpecRepFair == SpecRep /\ WF_vars(Update)

\* the ticks with database errors
NextRepFail == SetEntry \/ Update \/ UpdateCursorError

SpecRepFail == InitRep /\ [][NextRepFail]_vars

\* ----------------------------------------------------------------- claims

MemIndexConsistent(m) ==
    /\ \A h \in DOMAIN m.user_operations :
         LET e == get_entities(m.user_operations[h])
         IN /\ e.sender \in DOMAIN m.user_operations_by_sender
            /\ h \in m.user_operations_by_sender[e.sender]
            /\ e.factory # 0 =>
                 /\ e.factory \in DOMAIN m.user_operations_by_entity
                 /\ h \in m.user_operations_by_entity[e.factory]
            /\ e.paymaster # 0 =>
                 /\ e.paymaster \in DOMAIN m.user_operations_by_entity
                 /\ h \in m.user_operations_by_entity[e.paymaster]
    /\ \A a \in DOMAIN m.user_operations_by_sender :
         m.user_operations_by_sender[a] \subseteq DOMAIN m.user_operations
    /\ \A a \in DOMAIN m.user_operations_by_entity :
         m.user_operations_by_entity[a] \subseteq DOMAIN m.user_operations

DbIndexConsistent(d) ==
    /\ \A h \in DOMAIN d.UserOperations :
         LET e == get_entities(d.UserOperations[h])
         IN /\ <<e.sender, h>> \in d.UserOperationsBySender
            /\ e.factory # 0 => <<e.factory, h>> \in d.UserOperationsByEntity
            /\ e.paymaster # 0 => <<e.paymaster, h>> \in d.UserOperationsByEntity
    /\ \A p \in d.UserOperationsBySender \cup d.UserOperationsByEntity :
         p[2] \in DOMAIN d.UserOperations

\* C1: index consistency.  After any sequence of add, remove,
\* remove_by_entity and clear, on both backends, every pooled hash is in
\* by_sender[its sender], in by_entity[its factory] and by_entity[its
\* paymaster] when it names them, and every hash in a by_sender or by_entity
\* set is the hash of a pooled operation.
C1_IndexConsistency == MemIndexConsistent(mem) /\ DbIndexConsistent(db)

\* C1 witness: a remove has just succeeded and left behind an operation that
\* names a factory and a paymaster.
C1_Witness ==
    /\ last.op = "remove" /\ last.mem = "Ok" /\ last.db = "Ok"
    /\ \E h \in DOMAIN mem.user_operations :
         /\ mem.user_operations[h].init_code # 0
         /\ mem.user_operations[h].paymaster_and_data # 0

\* C2 (as claimed): after clear both backends are empty in all four
\* structures: no operation, every count 0, no code hashes for any hash.
C2_ClearEmptiesAll ==
    last.op = "clear" =>
        /\ MemGetAll(mem) = {} /\ DbGetAll(db) = {}
        /\ \A a \in Addresses :
             /\ MemGetNumberBySender(mem, a) = 0
             /\ MemGetNumberByEntity(mem, a) = 0
             /\ DbGetNumberBySender(db, a) = 0
             /\ DbGetNumberByEntity(db, a) = 0
        /\ \A h \in Hashes(CodeOps) :
             /\ ~MemHasCodeHashes(mem, h) /\ MemGetCodeHashes(mem, h) = <<>>
             /\ ~DbHasCodeHashes(db, h) /\ DbGetCodeHashes(db, h) = <<>>

\* C3 (as claimed): on both backends every hash that has code hashes is the
\* hash of an operation in the primary store.
C3_CodeHashesOfPooledOnly ==
    \A h \in Hashes(CodeOps) :
        /\ MemHasCodeHashes(mem, h) => h \in DOMAIN mem.user_operations
        /\ DbHasCodeHashes(db, h) => h \in DOMAIN db.UserOperations

SortLaw(s) ==
    \A i, j \in DOMAIN s :
        i < j =>
            \/ s[i].max_priority_fee_per_gas > s[j].max_priority_fee_per_gas
            \/ /\ s[i].max_priority_fee_per_gas = s[j].max_priority_fee_per_gas
               /\ s[i].nonce <= s[j].nonce

\* C4: sort law.  Whatever the pool holds, the list get_sorted returns has,
\* for positions i < j, a higher tip at i, or equal tips and nonce at i <=
\* nonce at j; on both backends.
C4_SortLaw ==
    last.op = "get_sorted" => SortLaw(last.mem) /\ SortLaw(last.db)

\* C4 witness: get_sorted has returned two operations with different tips.
C4_Witness ==
    /\ last.op = "get_sorted"
    /\ Len(last.mem) = MaxPool /\ Len(last.db) = MaxPool
    /\ last.mem[1].max_priority_fee_per_gas > last.mem[2].max_priority_fee_per_gas

\* C9 (as claimed): backend equivalence.  The two backends, driven by the
\* same calls, return the same results: the outcome of the last mutating call
\* and, for every argument, the answers of get, get_all, get_all_by_sender,
\* get_number_by_sender, get_number_by_entity, has_code_hashes and
\* get_code_hashes.
C9_BackendEquivalence ==
    /\ last.mem = last.db
    /\ MemGetAll(mem) = DbGetAll(db)
    /\ \A a \in Addresses :
         /\ MemGetAllBySender(mem, a) = DbGetAllBySender(db, a)
         /\ MemGetNumberBySender(mem, a) = DbGetNumberBySender(db, a)
         /\ MemGetNumberByEntity(mem, a) = DbGetNumberByEntity(db, a)
    /\ \A h \in Hashes(CodeOps) :
         /\ MemGet(mem, h) = DbGet(db, h)
         /\ MemHasCodeHashes(mem, h) = DbHasCodeHashes(db, h)
         /\ MemGetCodeHashes(mem, h) = DbGetCodeHashes(db, h)

\* C10: remove of a hash that is not in the pool returns the not-found error
\* and leaves the primary store and the three indexes as they were, on both
\* backends.
C10_RemoveAbsent ==
    \A h \in Hashes(CodeOps) :
        /\ h \notin DOMAIN mem.user_operations =>
             MemRemove(mem, h) = [st |-> mem, res |-> "NotFound"]
        /\ h \notin DOMAIN db.UserOperations =>
             DbRemove(db, h) = [st |-> db, res |-> "NotFound"]

\* C10 witness: a remove has just returned not-found on both backends while
\* the pool holds an operation with code hashes.
C10_Witness ==
    /\ last.op = "remove" /\ last.mem = "NotFound" /\ last.db = "NotFound"
    /\ \E h \in DOMAIN mem.user_operations :
         MemHasCodeHashes(mem, h) /\ DbHasCodeHashes(db, h)

\* the pooled operations in the replacement slot of uo
SlotOps(m, uo) ==
    {o \in MemGetAll(m) : o.sender = uo.sender /\ o.nonce = uo.nonce}

\* C5 (as claimed): replacement leaves one operation.  When an operation
\* that passed verify_sender by the replacement rule is admitted, the pool
\* afterwards holds exactly one operation for its (sender, nonce), the new
\* one, and the pool is as large as before.
C5_ReplacementLeavesOne ==
    [][\A t \in Tasks :
          (/\ tasks[t].pc = "validated"
           /\ tasks[t].via = "replace"
           /\ tasks'[t].pc = "admitted")
          => /\ SlotOps(mem', tasks[t].uo) = {tasks[t].uo}
             /\ Cardinality(DOMAIN mem'.user_operations)
                  = Cardinality(DOMAIN mem.user_operations)]_vars

Unstaked == [ok |-> TRUE, stake |-> 0]

\* the replacement rule: same nonce, strictly higher tip, max fee raised by
\* the same amount as the tip
ReplacementRule(uo, prev) ==
    /\ uo.nonce = prev.nonce
    /\ uo.max_priority_fee_per_gas > prev.max_priority_fee_per_gas
    /\ uo.max_fee_per_gas - prev.max_fee_per_gas
         = uo.max_priority_fee_per_gas - prev.max_priority_fee_per_gas

\* C6 (as claimed): replacement rule verdict.  For an unstaked sender with
\* one pooled operation prev, verify_sender answers Ok if and only if the new
\* operation has prev's nonce, a strictly higher tip and an equally raised
\* max fee, and SenderVerification in every other case.
C6_ReplacementVerdict ==
    \A uo \in PoolOps :
        LET pooled == MemGetAllBySender(mem, uo.sender)
        IN Cardinality(pooled) = 1 =>
             \A prev \in pooled :
                {o.res : o \in VerifySenderResume(mem, uo, Unstaked)}
                  = IF ReplacementRule(uo, prev)
                    THEN {"Ok"}
                    ELSE {"SenderVerification"}

\* C7 (as claimed): a replacement attempt of an unstaked sender whose tip or
\* max fee is lower than that of the pooled operation is answered with
\* SenderVerification (the subtractions never abort the validation).
C7_LowerFeesRejected ==
    \A uo \in PoolOps :
        \A prev \in MemGetAllBySender(mem, uo.sender) :
            (\/ uo.max_priority_fee_per_gas < prev.max_priority_fee_per_gas
             \/ uo.max_fee_per_gas < prev.max_fee_per_gas)
            => VerifySenderPrev(uo, prev) = "SenderVerification"

\* C8 (as claimed): two admissions for the same replacement slot are never
\* both admitted as if the slot were empty: no two tasks have both passed
\* verify_sender on an empty slot and both put different operations for the
\* same (sender, nonce) into the pool.
C8_OneWinsEmptySlot ==
    \A t1, t2 \in Tasks :
        (/\ t1 # t2
         /\ tasks[t1].pc = "admitted" /\ tasks[t1].via = "empty"
         /\ tasks[t2].pc = "admitted" /\ tasks[t2].via = "empty"
         /\ tasks[t1].uo.sender = tasks[t2].uo.sender
         /\ tasks[t1].uo.nonce = tasks[t2].uo.nonce)
        => ~(/\ Hash(tasks[t1].uo) # Hash(tasks[t2].uo)
             /\ {Hash(tasks[t1].uo), Hash(tasks[t2].uo)}
                   \subseteq DOMAIN mem.user_operations)

\* the by-sender / by-entity set of an address, empty when the key is absent
MemSet(map, a) == IF a \in DOMAIN map THEN map[a] ELSE {}

\* C11 (as claimed): removing is idempotent.  On both backends, a second
\* remove of a hash that has just been removed succeeds like the first and
\* leaves the pool as the first removal left it.
C11_RemoveIdempotent ==
    \A h \in Hashes(FrameOps) :
        /\ MemRemove(mem, h).res = "Ok" =>
             MemRemove(MemRemove(mem, h).st, h)
               = [st |-> MemRemove(mem, h).st, res |-> "Ok"]
        /\ DbRemove(db, h).res = "Ok" =>
             DbRemove(DbRemove(db, h).st, h)
               = [st |-> DbRemove(db, h).st, res |-> "Ok"]

\* C11 (amended): on both backends, a second remove of a hash that has just
\* been removed returns the not-found error and leaves the pool as the first
\* removal left it.
C11_SecondRemoveNotFound ==
    \A h \in Hashes(FrameOps) :
        /\ MemRemove(mem, h).res = "Ok" =>
             MemRemove(MemRemove(mem, h).st, h)
               = [st |-> MemRemove(mem, h).st, res |-> "NotFound"]
        /\ DbRemove(db, h).res = "Ok" =>
             DbRemove(DbRemove(db, h).st, h)
               = [st |-> DbRemove(db, h).st, res |-> "NotFound"]

\* C11 witness: a remove has just returned not-found on both backends while
\* the pool holds one operation, with code hashes, that a remove would
\* delete.
C11_Witness ==
    /\ last.op = "remove" /\ last.mem = "NotFound" /\ last.db = "NotFound"
    /\ Cardinality(DOMAIN mem.user_operations) = 1
    /\ \E h \in DOMAIN mem.user_operations :
         /\ MemHasCodeHashes(mem, h) /\ DbHasCodeHashes(db, h)
         /\ MemRemove(mem, h).res = "Ok" /\ DbRemove(db, h).res = "Ok"

\* what remove(h) has to leave of the in-memory pool m in m2
MemRemovedExactly(m, m2, h) ==
    /\ MemGet(m2, h) = {}
    /\ ~MemHasCodeHashes(m2, h)
    /\ \A a \in Addresses :
         /\ MemSet(m2.user_operations_by_sender, a)
              = MemSet(m.user_operations_by_sender, a) \ {h}
         /\ MemSet(m2.user_operations_by_entity, a)
              = MemSet(m.user_operations_by_entity, a) \ {h}
         /\ MemGetNumberBySender(m2, a)
              = Cardinality(MemSet(m.user_operations_by_sender, a) \ {h})
         /\ MemGetNumberByEntity(m2, a)
              = Cardinality(MemSet(m.user_operations_by_entity, a) \ {h})
    /\ \A g \in Hashes(FrameOps) \ {h} :
         /\ MemGet(m2, g) = MemGet(m, g)
         /\ MemHasCodeHashes(m2, g) = MemHasCodeHashes(m, g)
         /\ MemGetCodeHashes(m2, g) = MemGetCodeHashes(m, g)

\* the same of the durable pool d in d2
DbRemovedExactly(d, d2, h) ==
    /\ DbGet(d2, h) = {}
    /\ ~DbHasCodeHashes(d2, h)
    /\ \A a \in Addresses :
         /\ Dups(d2.UserOperationsBySender, a)
              = Dups(d.UserOperationsBySender, a) \ {h}
         /\ Dups(d2.UserOperationsByEntity, a)
              = Dups(d.UserOperationsByEntity, a) \ {h}
         /\ DbGetNumberBySender(d2, a)
              = Cardinality(Dups(d.UserOperationsBySender, a) \ {h})
         /\ DbGetNumberByEntity(d2, a)
              = Cardinality(Dups(d.UserOperationsByEntity, a) \ {h})
    /\ \A g \in Hashes(FrameOps) \ {h} :
         /\ DbGet(d2, g) = DbGet(d, g)
         /\ DbHasCodeHashes(d2, g) = DbHasCodeHashes(d, g)
         /\ DbGetCodeHashes(d2, g) = DbGetCodeHashes(d, g)

\* C12: a successful remove(h) deletes exactly that operation.  On both
\* backends, for every pooled h, remove(h) answers Ok and afterwards get(h)
\* is none, h is in no by-sender and no by-entity set, has_code_hashes(h) is
\* false, and every other operation, its index entries and its code hashes
\* are as before; the pooled operations share sender and factory, and some
\* name the factory's address as paymaster too.
C12_RemoveExact ==
    /\ \A h \in DOMAIN mem.user_operations :
         /\ MemRemove(mem, h).res = "Ok"
         /\ MemRemovedExactly(mem, MemRemove(mem, h).st, h)
    /\ \A h \in DOMAIN db.UserOperations :
         /\ DbRemove(db, h).res = "Ok"
         /\ DbRemovedExactly(db, DbRemove(db, h).st, h)

\* C12 witness: a remove has just succeeded on both backends and left behind
\* an operation of the same sender and factory that names the factory's
\* address as paymaster and has code hashes.
C12_Witness ==
    /\ last.op = "remove" /\ last.mem = "Ok" /\ last.db = "Ok"
    /\ \E h \in DOMAIN mem.user_operations :
         /\ mem.user_operations[h].paymaster_and_data = mem.user_operations[h].init_code
         /\ MemHasCodeHashes(mem, h) /\ DbHasCodeHashes(db, h)
         /\ h \in DOMAIN db.UserOperations

\* the operations that do not name entity as factory or paymaster
NotOfEntity(uos, entity) ==
    {uo \in uos : uo.init_code # entity /\ uo.paymaster_and_data # entity}

\* C13: remove_by_entity(E), on both backends and whatever the pool holds,
\* answers Ok (never not-found), removes every pooled operation that names E
\* as factory or paymaster and no other (one that names E only as sender
\* stays), and leaves get_number_by_entity(E) at 0.
C13_RemoveByEntity ==
    \A entity \in Addresses :
        /\ MemRemoveByEntity(mem, entity).res = "Ok"
        /\ MemGetAll(MemRemoveByEntity(mem, entity).st)
             = NotOfEntity(MemGetAll(mem), entity)
        /\ MemGetNumberByEntity(MemRemoveByEntity(mem, entity).st, entity) = 0
        /\ DbRemoveByEntity(db, entity).res = "Ok"
        /\ DbGetAll(DbRemoveByEntity(db, entity).st)
             = NotOfEntity(DbGetAll(db), entity)
        /\ DbGetNumberByEntity(DbRemoveByEntity(db, entity).st, entity) = 0

\* C13 witness: remove_by_entity has just returned Ok on both backends and
\* the pool is full of operations sent by the address that factories and
\* paymasters are drawn from, none of which names it as factory or paymaster.
C13_Witness ==
    /\ last.op = "remove_by_entity" /\ last.mem = "Ok" /\ last.db = "Ok"
    /\ MemGetNumberByEntity(mem, MaxAddr) = 0
    /\ DbGetNumberByEntity(db, MaxAddr) = 0
    /\ MemGetNumberBySender(mem, MaxAddr) = MaxPool
    /\ DbGetNumberBySender(db, MaxAddr) = MaxPool

\* C14: add returns the operation's hash, the same for identical arguments,
\* and get of that hash then returns exactly the operation added (also when
\* the pool held the operation under another signature); adding it a second
\* time changes nothing: one entry, size and counts as after one add.  On
\* both backends.
C14_AddOnce ==
    \A uo \in FrameOps :
        /\ MemAdd(mem, uo).res = Hash(uo)
        /\ MemGet(MemAdd(mem, uo).st, Hash(uo)) = {uo}
        /\ MemAdd(MemAdd(mem, uo).st, uo) = MemAdd(mem, uo)
        /\ DbAdd(db, uo).res = Hash(uo)
        /\ DbGet(DbAdd(db, uo).st, Hash(uo)) = {uo}
        /\ DbAdd(DbAdd(db, uo).st, uo) = DbAdd(db, uo)

\* C14 witness: add has just returned the hash of an operation that the pool
\* already held (code hashes were stored for it since), now with the other
\* signature, next to a second operation.
C14_Witness ==
    /\ last.op = "add" /\ last.mem = last.db
    /\ last.mem \in DOMAIN mem.user_operations
    /\ MemHasCodeHashes(mem, last.mem) /\ DbHasCodeHashes(db, last.mem)
    /\ mem.user_operations[last.mem].signature = 1
    /\ db.UserOperations[last.mem].signature = 1
    /\ Cardinality(DOMAIN mem.user_operations) = MaxPool

\* what one tick has to make of the table: every row's counters at
\* floor(counter * 23 / 24), rows with both at 0 gone, no row added
Decayed(table, table2) ==
    /\ DOMAIN table2 \subseteq DOMAIN table
    /\ \A a \in DOMAIN table :
         LET seen == (table[a].uo_seen * 23) \div 24
             included == (table[a].uo_included * 23) \div 24
         IN IF seen = 0 /\ included = 0
            THEN a \notin DOMAIN table2
            ELSE /\ a \in DOMAIN table2
                 /\ table2[a] = [uo_seen |-> seen, uo_included |-> included]

\* C15 (as claimed): reputation decay.  One tick replaces every stored
\* entry's uo_seen by floor(uo_seen * 23 / 24) and uo_included by
\* floor(uo_included * 23 / 24), each entry exactly once, also behind an
\* entry the tick deletes, and leaves no entry with both counters at 0.
C15_ReputationDecay ==
    [][last'.op = "update" => Decayed(rep, rep')]_vars

\* C16 (as claimed): every reputation entry is eventually deleted.  Once
\* set_entry is no longer called, the ticks drive the counters of every
\* entry to 0 and remove it: the table ends up empty.
C16_EventuallyDeleted ==
    <>[][last'.op # "set_entry"]_vars => <>[](rep = EmptyMap)


\* ---------------------------------------------------- the sanity checks
\* the validation ended in check c with error r
EndedWith(task, c, r) == task.pc = "rejected" /\ task.at = c /\ task.res = r

\* the validation has left check c behind without an error of it
Passed(task, c) == task.at # c /\ task.pc # "idle"

\* C19: once get_code(sender) has answered, the sender-or-init-code check
\* has passed if and only if exactly one of "the sender has code" and
\* "init_code is not empty" holds; when both or neither hold the validation
\* has ended with SenderOrInitCode, and when get_code failed it has ended
\* with the provider's error.
C19_SenderOrInitCode ==
    \A t \in SanityTasks : \A code \in tasks[t].env.code :
        LET task == tasks[t]
            has_code == code = "code"
            has_init == task.uo.init_code # 0
        IN  IF code = "err"
            THEN EndedWith(task, "sender_or_init_code", "Middleware")
            ELSE IF has_code # has_init
            THEN Passed(task, "sender_or_init_code")
            ELSE EndedWith(task, "sender_or_init_code", "SenderOrInitCode")

\* a sender with code and an operation without init_code has passed the
\* check and the validation stands in a later one
C19_Witness ==
    \E t \in SanityTasks :
        /\ tasks[t].env.code = {"code"}
        /\ tasks[t].uo.init_code = 0
        /\ tasks[t].at \in {"verify_paymaster", "call_gas_limit"}

\* the validation has come to the verification-gas check: it ended there or
\* the answer to sender_or_init_code and, if there is a factory, the
\* factory's deposit info are in and it stands in another check
AtVerificationGas(task) ==
    \/ task.at = "verification_gas"
    \/ /\ task.at \notin {"none", "sender_or_init_code", "verify_factory"}
       /\ task.pc # "idle"

\* C20: a validation that has come to the verification-gas check has ended
\* with HighVerificationGasLimit exactly when verification_gas_limit is above
\* max_verification_gas; otherwise it has ended with LowPreVerificationGas
\* exactly when pre_verification_gas is below the calculated value;
\* otherwise (equality included, both times) the check has passed.
C20_VerificationGas ==
    \A t \in SanityTasks :
        LET task == tasks[t] IN
        AtVerificationGas(task) =>
            IF task.uo.verification_gas_limit > max_verification_gas
            THEN EndedWith(task, "verification_gas", "HighVerificationGasLimit")
            ELSE IF task.uo.pre_verification_gas
                        < calculate_pre_verification_gas(task.uo)
            THEN EndedWith(task, "verification_gas", "LowPreVerificationGas")
            ELSE Passed(task, "verification_gas")

\* an operation below its calculated pre-verification gas and above the
\* verification gas maximum has been rejected for the latter
C20_Witness ==
    \E t \in SanityTasks :
        /\ tasks[t].uo.verification_gas_limit > max_verification_gas
        /\ tasks[t].uo.pre_verification_gas
                < calculate_pre_verification_gas(tasks[t].uo)
        /\ EndedWith(tasks[t], "verification_gas", "HighVerificationGasLimit")


\* C17 as claimed: the fee check comes before the call-gas check, so an
\* operation rejected with LowCallGasLimit does not violate the fee check:
\* its priority fee is neither above its max fee nor below the configured
\* minimum.
C17_SpecOrder ==
    \A t \in SanityTasks :
        tasks[t].res = "LowCallGasLimit" =>
            /\ tasks[t].uo.max_priority_fee_per_gas <= tasks[t].uo.max_fee_per_gas
            /\ tasks[t].uo.max_priority_fee_per_gas >= min_priority_fee_per_gas

\* what the answers a validation has received say about each check
SenderPassed(task) ==
    \E code \in task.env.code : sender_or_init_code(task.uo, code) = "Ok"

FactoryPassed(task) ==
    task.uo.init_code = 0 \/ \E info \in task.env.factory_info : info.ok

GasPassed(task) == verification_gas(task.uo) = "Ok"

PaymasterPassed(task) ==
    \/ task.uo.paymaster_and_data = 0
    \/ /\ task.env.paymaster_code = {"code"}
       /\ \E info \in task.env.paymaster_info : info.ok

CallGasPassed(task) ==
    \E est \in task.env.gas : call_gas_limit(task.uo, est) = "Ok"

FeePassed(task) ==
    \E answer \in task.env.gas_price : max_fee_per_gas(task.uo, answer) = "Ok"

\* C17, amended: the checks run in the order sender-or-init-code, factory,
\* verification gas, paymaster, call gas, fees, sender.  A validation stands
\* in a check, has an answer for it or has ended in it only if every check
\* before it in that order has passed; it is accepted only if all have.
C17_CodeOrder ==
    \A t \in SanityTasks :
        LET task == tasks[t]
            In(c) == task.at = c
        IN
        /\ (In("verify_factory") \/ task.env.factory_info # {})
              => SenderPassed(task)
        /\ In("verification_gas")
              => SenderPassed(task) /\ FactoryPassed(task)
        /\ (In("verify_paymaster") \/ task.env.paymaster_code # {})
              => SenderPassed(task) /\ FactoryPassed(task) /\ GasPassed(task)
        /\ (In("call_gas_limit") \/ task.env.gas # {})
              => /\ SenderPassed(task) /\ FactoryPassed(task)
                 /\ GasPassed(task) /\ PaymasterPassed(task)
        /\ (In("max_fee_per_gas") \/ task.env.gas_price # {})
              => /\ SenderPassed(task) /\ FactoryPassed(task)
                 /\ GasPassed(task) /\ PaymasterPassed(task)
                 /\ CallGasPassed(task)
        /\ (In("verify_sender") \/ task.pc = "validated")
              => /\ SenderPassed(task) /\ FactoryPassed(task)
                 /\ GasPassed(task) /\ PaymasterPassed(task)
                 /\ CallGasPassed(task) /\ FeePassed(task)
        /\ task.pc = "rejected" => task.res # "Ok"

\* an operation with its priority fee above its max fee and its call gas
\* below the estimation has been rejected with LowCallGasLimit
C17_Witness ==
    \E t \in SanityTasks :
        /\ tasks[t].uo.max_priority_fee_per_gas > tasks[t].uo.max_fee_per_gas
        /\ EndedWith(tasks[t], "call_gas_limit", "LowCallGasLimit")
        /\ tasks[t].env.gas_price = {}


\* C18: a step in which a validation fails a check or is cancelled leaves
\* the mempool and the reputation store as they were, and after it
\* sanity_check_results holds no entry for the operation.
C18_NoPartialState ==
    [][\A t \in SanityTasks :
         (/\ tasks'[t].pc \in {"rejected", "cancelled"}
          /\ tasks[t].pc \notin {"rejected", "cancelled"})
            => /\ mem' = mem /\ db' = db /\ rep' = rep
               /\ Hash(tasks'[t].uo) \notin DOMAIN results']_vars


\* C21: once get_gas_price has answered with the base fee, the fee check has
\* ended with HighMaxPriorityFeePerGas when the priority fee is above the max
\* fee; else with LowMaxFeePerGas when base fee + priority fee is above the
\* max fee; else with LowMaxPriorityFeePerGas when the priority fee is below
\* the configured minimum; else it has passed.
C21_FeeMarket ==
    \A t \in SanityTasks : \A answer \in tasks[t].env.gas_price :
        LET task == tasks[t]
            tip == task.uo.max_priority_fee_per_gas
            fee == task.uo.max_fee_per_gas
        IN  answer.ok =>
              IF tip > fee
              THEN EndedWith(task, "max_fee_per_gas", "HighMaxPriorityFeePerGas")
              ELSE IF answer.price + tip > fee
              THEN EndedWith(task, "max_fee_per_gas", "LowMaxFeePerGas")
              ELSE IF tip < min_priority_fee_per_gas
              THEN EndedWith(task, "max_fee_per_gas", "LowMaxPriorityFeePerGas")
              ELSE Passed(task, "max_fee_per_gas")


\* C24: validate_user_operation does not return Ok for an operation whose
\* paymaster the reputation reports as BANNED.
C24_BannedPaymasterRejected ==
    \A t \in SanityTasks :
        tasks[t].pc = "validated" => "BANNED" \notin tasks[t].env.status


\* C25: once get_deposit_info(sender) has answered (the sender had an
\* operation in the pool), a stake that passes verify_stake has made
\* verify_sender accept the operation, whatever its nonce and fees, and a
\* failed lookup has made it reject the operation with SenderVerification.
C25_StakedSenderExempt ==
    \A t \in SanityTasks : \A info \in tasks[t].env.sender_info :
        /\ (info.ok /\ VerifyStake(info))
              => /\ tasks[t].pc = "validated"
                 /\ tasks[t].res = "Ok"
        /\ ~info.ok
              => EndedWith(tasks[t], "verify_sender", "SenderVerification")

\* a staked sender has been accepted with an operation of another nonce and
\* a lower priority fee than the one it has in the pool
C25_Witness ==
    \E t \in SanityTasks :
        /\ tasks[t].pc = "validated"
        /\ \E info \in tasks[t].env.sender_info : info.ok /\ VerifyStake(info)
        /\ \A prev \in MemGetAllBySender(mem, tasks[t].uo.sender) :
              /\ prev.nonce # tasks[t].uo.nonce
              /\ prev.max_priority_fee_per_gas
                    > tasks[t].uo.max_priority_fee_per_gas
        /\ MemGetAllBySender(mem, tasks[t].uo.sender) # {}


\* C22: a FailedOp of the simulation has ended the CallGas check with a
\* Validation error carrying its reason, and any other simulation error, a
\* failed block read, a missing block or a missing base fee with
\* UnknownError; once the block with its base fee is in, the check has passed
\* if and only if call_gas_limit is at least the limit calculated from
\* (paid, pre_op_gas) and min(max_fee_per_gas, max_priority_fee_per_gas +
\* base fee), and has otherwise ended with LowCallGasLimit carrying the
\* supplied and the calculated limit.
C22_CallGasFloor ==
    \A t \in SanityTasks :
        LET task == tasks[t] IN
        task.at = "CallGas" =>
          /\ \A sim \in task.env.simulation :
                /\ sim.kind = "FailedOp"
                      => /\ task.pc = "rejected" /\ task.res = "Validation"
                         /\ task.payload.message = sim.reason
                /\ sim.kind = "Err"
                      => task.pc = "rejected" /\ task.res = "UnknownError"
          /\ \A sim \in task.env.simulation : \A block \in task.env.block :
                IF block.kind # "Block"
                THEN task.pc = "rejected" /\ task.res = "UnknownError"
                ELSE LET price == Min(task.uo.max_fee_per_gas,
                                      task.uo.max_priority_fee_per_gas
                                         + block.base_fee_per_gas)
                         required == (sim.paid - sim.pre_op_gas * price)
                                        \div price + CALL_STIPEND
                     IN  IF task.uo.call_gas_limit >= required
                         THEN task.pc = "passed"
                         ELSE /\ task.pc = "rejected"
                              /\ task.res = "LowCallGasLimit"
                              /\ task.payload.call_gas_limit
                                    = task.uo.call_gas_limit
                              /\ task.payload.call_gas_limit_expected = required


\* what the claim says of one entity: the error it deserves, if any
Offence(m, addr, status) ==
    IF status = "Err" THEN "UnknownError"
    ELSE IF status = "BANNED" THEN "EntityBanned"
    ELSE IF /\ status = "THROTTLED"
            /\ MemGetNumberBySender(m, addr) + MemGetNumberByEntity(m, addr)
                  >= THROTTLED_ENTITY_MEMPOOL_COUNT
    THEN "ThrottledLimit"
    ELSE "Ok"

\* the check has ended with the error r of the entity called name
Blamed(task, r, name, addr) ==
    /\ task.pc = "rejected"
    /\ task.res = r
    /\ r # "UnknownError"
          => task.payload.entity = name /\ task.payload.address = addr

\* C23: a step of the Entities check ends with the error of the first of
\* sender, factory, paymaster (those present) that is BANNED (EntityBanned),
\* THROTTLED with at least THROTTLED_ENTITY_MEMPOOL_COUNT pooled operations
\* counted by sender and by entity (ThrottledLimit), or whose status cannot
\* be read (UnknownError); if there is none, and so whenever every status is
\* OK, the check passes.
C23_EntitiesCheck ==
    [][\A t \in SanityTasks :
         (tasks[t].pc = "idle" /\ tasks'[t].at = "Entities") =>
            \A status \in tasks'[t].env.statuses :
               LET task == tasks'[t]
                   uo == task.uo
                   s == Offence(mem, uo.sender, status[uo.sender])
                   f == IF uo.init_code = 0 THEN "Ok"
                        ELSE Offence(mem, uo.init_code, status[uo.init_code])
                   p == IF uo.paymaster_and_data = 0 THEN "Ok"
                        ELSE Offence(mem, uo.paymaster_and_data,
                                     status[uo.paymaster_and_data])
               IN  IF s # "Ok" THEN Blamed(task, s, "sender", uo.sender)
                   ELSE IF f # "Ok"
                   THEN Blamed(task, f, "factory", uo.init_code)
                   ELSE IF p # "Ok"
                   THEN Blamed(task, p, "paymaster", uo.paymaster_and_data)
                   ELSE task.pc = "passed"]_vars

\* a throttled contract with no operation of its own as sender but enough
\* as factory or paymaster has had an operation rejected that names it as
\* both, with the factory blamed
C23_Witness ==
    \E t \in SanityTasks :
        /\ tasks[t].at = "Entities"
        /\ tasks[t].res = "ThrottledLimit"
        /\ tasks[t].payload.entity = "factory"
        /\ tasks[t].uo.paymaster_and_data = tasks[t].uo.init_code
        /\ MemGetNumberBySender(mem, tasks[t].uo.init_code) = 0


\* C26: while the paymaster stays THROTTLED, the pooled operations that name
\* it, counted by sender and by entity, never exceed
\* THROTTLED_ENTITY_MEMPOOL_COUNT, however the admissions interleave.
C26_ThrottleCap ==
    MemGetNumberBySender(mem, MaxAddr) + MemGetNumberByEntity(mem, MaxAddr)
        <= THROTTLED_ENTITY_MEMPOOL_COUNT


\* the order in which guards may be held together
LockRank(lock) ==
    CASE lock = "mempools" -> 1
      [] lock = "reputations" -> 2
      [] lock = "sanity_check_results" -> 3

\* C27: a validation about to await a call holds no guard; the guards a
\* validation holds together were taken in the one order mempools,
\* reputations, sanity_check_results; and as long as a validation is
\* running, some running validation can take its next step (no deadlock).
C27_LockingDiscipline ==
    /\ \A t \in Tasks :
          (Running(t) /\ NextStep(t).op = "await") => tasks[t].held = <<>>
    /\ \A t \in Tasks : \A i, j \in 1..Len(tasks[t].held) :
          i < j => LockRank(tasks[t].held[i].lock)
                      < LockRank(tasks[t].held[j].lock)
    /\ (\E t \in Tasks : Running(t)) => \E t \in Tasks : CanStep(t)

\* one validation waits for the write guard of sanity_check_results, with
\* the read guard of reputations in hand, while another holds both
C27_Witness ==
    \E t, u \in Tasks :
        /\ t # u
        /\ Running(t) /\ ~CanStep(t)
        /\ Len(tasks[t].held) = 1
        /\ Len(tasks[u].held) = 2


\* C28: verify_sender never ends by indexing an empty list of the sender's
\* pooled operations, whatever is removed from the pool while it awaits the
\* sender's deposit info.
C28_NoAbortOnRemoval ==
    \A t \in Tasks :
        ~(/\ tasks[t].at = "verify_sender"
          /\ tasks[t].res = "Panic"
          /\ tasks[t].via = "none")


\* C29: for the pool as it is, the operation a validation checks and any
\* one answer of get_deposit_info, verify_sender has one possible result.
C29_ReplacementDeterministic ==
    \A t \in SanityTasks :
        tasks[t].pc = "get_deposit_info" =>
            \A info \in DepositInfos :
                Cardinality({o.res : o \in VerifySenderResume(
                                            mem, tasks[t].uo, info)}) = 1


\* C30: a durable remove_by_entity that returns an error has removed none of
\* the entity's operations: the tables are as before the call.
C30_RemoveByEntityAtomic ==
    [][(last'.op = "remove_by_entity" /\ last'.db # "Ok") => db' = db]_vars


C32_TickAllOrNothing ==
    [][last'.op = "update (cursor error)"
            => (last'.db # "Ok" /\ rep' = rep)]_vars


\* C33: the decay is exact over the whole range of the counters: a tick
\* ends without abort and every counter c it keeps is stored as
\* floor(c * 23 / 24), also for c above CounterMax / 23.
C33_DecayWholeRange ==
    [][last'.op = "update"
          => /\ last'.db = "Ok"
             /\ \A a \in DOMAIN rep \cap DOMAIN rep' :
                  /\ rep'[a].uo_seen = (rep[a].uo_seen * 23) \div 24
                  /\ rep'[a].uo_included = (rep[a].uo_included * 23) \div 24]_vars


\* C34: a tick preserves uo_included <= uo_seen: an entry that satisfies it
\* before the tick and survives the tick satisfies it afterwards.
C34_TickKeepsInvariant ==
    [][last'.op = "update"
          => \A a \in DOMAIN rep \cap DOMAIN rep' :
                rep[a].uo_included <= rep[a].uo_seen
                    => rep'[a].uo_included <= rep'[a].uo_seen]_vars


\* the entries of a list
Entries(list) == {list[i] : i \in DOMAIN list}

\* C35: set_code_hashes replaces: after set_code_hashes(h, L) on a pool in
\* any state (also one where h had code hashes before), get_code_hashes(h)
\* holds exactly the entries of L, has_code_hashes(h) is true whatever L
\* is, and the code hashes of every other hash are as before; on both
\* backends.
C35_SetReplaces ==
    [][\A h \in DOMAIN mem.user_operations, L \in CodeHashLists :
          (/\ last'.op = "set_code_hashes"
           /\ mem' = MemSetCodeHashes(mem, h, L).st
           /\ db' = DbSetCodeHashes(db, h, L).st)
          => /\ Entries(MemGetCodeHashes(mem', h)) = Entries(L)
             /\ Entries(DbGetCodeHashes(db', h)) = Entries(L)
             /\ MemHasCodeHashes(mem', h)
             /\ DbHasCodeHashes(db', h)
             /\ \A g \in Hashes(CodeOps) \ {h} :
                  /\ MemGetCodeHashes(mem', g) = MemGetCodeHashes(mem, g)
                  /\ DbGetCodeHashes(db', g) = DbGetCodeHashes(db, g)
                  /\ MemHasCodeHashes(mem', g) = MemHasCodeHashes(mem, g)
                  /\ DbHasCodeHashes(db', g) = DbHasCodeHashes(db, g)]_vars


\* the pooled operations sent by addr, and those that name addr as factory
\* or paymaster
SentBy(uos, addr) == {uo \in uos : uo.sender = addr}
Naming(uos, addr) ==
    {uo \in uos : uo.init_code = addr \/ uo.paymaster_and_data = addr}

\* C36: counts agree with contents.  In every reachable state of the pool,
\* on both backends and for every address A, get_number_by_sender(A) is the
\* number of operations get_all_by_sender(A) returns and the number of
\* operations of get_all sent by A, and get_number_by_entity(A) is the
\* number of operations of get_all that name A as factory or paymaster, an
\* operation that names A as both counted once.
C36_CountsAgree ==
    \A a \in Addresses :
        /\ MemGetNumberBySender(mem, a) = Cardinality(MemGetAllBySender(mem, a))
        /\ MemGetNumberBySender(mem, a) = Cardinality(SentBy(MemGetAll(mem), a))
        /\ MemGetNumberByEntity(mem, a) = Cardinality(Naming(MemGetAll(mem), a))
        /\ DbGetNumberBySender(db, a) = Cardinality(DbGetAllBySender(db, a))
        /\ DbGetNumberBySender(db, a) = Cardinality(SentBy(DbGetAll(db), a))
        /\ DbGetNumberByEntity(db, a) = Cardinality(Naming(DbGetAll(db), a))

\* C36 witness: after a remove the pool still holds an operation that names
\* one address as factory and as paymaster, sent by that address.
C36_Witness ==
    /\ last.op = "remove" /\ last.mem = "Ok" /\ last.db = "Ok"
    /\ \E uo \in DbGetAll(db) :
         /\ uo.init_code = MaxAddr /\ uo.paymaster_and_data = MaxAddr
         /\ uo.sender = MaxAddr
         /\ uo \in MemGetAll(mem)


\* list holds every element of the set once and nothing else
PermutationOf(list, set) ==
    /\ Len(list) = Cardinality(set)
    /\ {list[i] : i \in DOMAIN list} = set

\* C37: get_sorted returns the operations of get_all, each once and nothing
\* else, and leaves the pool as it was; on both backends, in whatever order
\* the store hands the operations out.
C37_SortedIsPermutation ==
    [][last'.op = "get_sorted"
          => /\ PermutationOf(last'.mem, MemGetAll(mem))
             /\ PermutationOf(last'.db, DbGetAll(db))
             /\ mem' = mem
             /\ db' = db]_vars

\* C37 witness: get_sorted has returned a full pool in which two operations
\* compare Equal (same tip, same nonce, different senders).
C37_Witness ==
    /\ last.op = "get_sorted"
    /\ Len(last.mem) = MaxPool /\ Len(last.db) = MaxPool
    /\ \E i, j \in 1..MaxPool :
         i # j /\ SortCompare(last.mem[i], last.mem[j]) = 0


\* the flags of the entry are backed by what the validation was answered
FlagsBacked(task, flags) ==
    /\ "FactoryVerified" \in flags
          => \E info \in task.env.factory_info : info.ok /\ VerifyStake(info)
    /\ "PaymasterVerified" \in flags
          => /\ \E info \in task.env.paymaster_info :
                  info.ok /\ info.deposit > task.uo.max_fee_per_gas
             /\ \E status \in task.env.status : status # "BANNED"
    /\ "SenderVerified" \in flags
          => /\ task.via = "staked"
             /\ \E info \in task.env.sender_info : info.ok /\ VerifyStake(info)

\* C38: the flags of a validation run.  validate_user_operation starts by
\* emptying the entry of the operation's hash in sanity_check_results; when
\* it returns, the entry holds FactoryVerified only if the factory's stake
\* passed verify_stake, PaymasterVerified only if the paymaster's deposit is
\* above max_fee_per_gas and the paymaster is not BANNED, SenderVerified
\* only if the sender had a pooled operation and its stake passed
\* verify_stake; and no entry changes but by a validation of its hash.
C38_VerifiedFlags ==
    [][/\ \A t \in Tasks :
            /\ (tasks[t].pc = "idle" /\ tasks'[t].pc # "idle")
                  => results'[Hash(tasks'[t].uo)] = {}
            /\ (/\ tasks[t].pc \notin {"idle", "validated", "rejected"}
                /\ tasks'[t].pc \in {"validated", "rejected"})
                  => FlagsBacked(tasks'[t], results'[Hash(tasks'[t].uo)])
       /\ \A h \in DOMAIN results :
            /\ h \in DOMAIN results'
            /\ results'[h] # results[h]
                  => \E t \in Tasks :
                        tasks'[t] # tasks[t] /\ Hash(tasks'[t].uo) = h]_vars


\* the validation has come as far as check c
Reached(task, c) ==
    /\ task.pc # "idle"
    /\ task.at = "done" \/ IndexOf(task.at) >= IndexOf(c)

\* C39: malformed entity fields.  Once verify_factory runs, a non-empty
\* init_code too short for an address ends the validation with
\* FactoryVerification, and so does a failed deposit lookup for the
\* factory; once verify_paymaster runs, a non-empty paymaster_and_data too
\* short for an address, a paymaster without code and a failed deposit
\* lookup for the paymaster each end it with PaymasterVerification; with an
\* empty init_code or paymaster_and_data the check asks nothing and
\* rejects nothing.
C39_MalformedEntities ==
    \A t \in SanityTasks :
        LET task == tasks[t] IN
        /\ (Reached(task, "verify_factory") /\ task.uo.init_code = Short)
              => EndedWith(task, "verify_factory", "FactoryVerification")
        /\ (\E info \in task.env.factory_info : ~info.ok)
              => EndedWith(task, "verify_factory", "FactoryVerification")
        /\ (Reached(task, "verify_paymaster")
                /\ task.uo.paymaster_and_data = Short)
              => EndedWith(task, "verify_paymaster", "PaymasterVerification")
        /\ task.env.paymaster_code = {"empty"}
              => EndedWith(task, "verify_paymaster", "PaymasterVerification")
        /\ (\E info \in task.env.paymaster_info : ~info.ok)
              => EndedWith(task, "verify_paymaster", "PaymasterVerification")
        /\ (task.pc # "idle" /\ task.uo.init_code = 0)
              => task.at # "verify_factory" /\ task.env.factory_info = {}
        /\ (task.pc # "idle" /\ task.uo.paymaster_and_data = 0)
              => /\ task.at # "verify_paymaster"
                 /\ task.env.paymaster_code = {}
                 /\ task.env.paymaster_info = {}

\* C39 witness: the deposit lookup for the factory has failed and ended the
\* validation of an operation with a paymaster.
C39_Witness ==
    \E t \in SanityTasks :
        /\ EndedWith(tasks[t], "verify_factory", "FactoryVerification")
        /\ tasks[t].env.factory_info = {[ok |-> FALSE, stake |-> 0]}
        /\ tasks[t].uo.paymaster_and_data = MaxAddr
====
